---------------------------- MODULE Spec2Model ----------------------------
(***************************************************************************)
(* Model of the Sathi assistant core (src/core/main.py and the modules it  *)
(* calls): the wake-word scorer is_wake_word, the wake loop and the        *)
(* conversation loop of sathi_assistant, and one conversation turn         *)
(* sathi_interaction.                                                      *)
(*                                                                         *)
(* Representation.                                                         *)
(*  - A Python str is a sequence of one-character strings:                 *)
(*    "hey" is <<"h","e","y">>.                                            *)
(*  - A Python float score is the exact fraction it rounds, a pair         *)
(*    <<n, d>> in lowest terms with d > 0: 0.95 is <<19, 20>>, and         *)
(*    SequenceMatcher.ratio() = 2.0 * M / T is Frac(2 * M, T).  All the    *)
(*    fractions that occur have small denominators, so comparing the       *)
(*    fractions gives the same answer as comparing the floats.             *)
(*  - Python's None is <<>> for a transcript (transcribe_audio returns no *)
(*    empty text) and the string "None" for a path or a result.            *)
(***************************************************************************)
EXTENDS Integers, Sequences, FiniteSets, TLC

(***************************************************************************)
(* Exact fractions for float scores                                        *)
(***************************************************************************)
RECURSIVE GCD(_, _)
GCD(a, b) == IF b = 0 THEN a ELSE GCD(b, a % b)

Frac(n, d) == LET g == GCD(n, d) IN <<n \div g, d \div g>>

Geq(x, y) == x[1] * y[2] >= y[1] * x[2]

Gt(x, y) == x[1] * y[2] > y[1] * x[2]

(***************************************************************************)
(* Characters and the str methods the scorer uses                          *)
(***************************************************************************)
\* The printable characters of ASCII, from the space (code point 32) to the
\* tilde (126); the grave accent, which cannot stand in a TLA+ string, is
\* written as its escape.
Ascii ==
    <<" ", "!", "\"", "#", "$", "%", "&", "'", "(", ")", "*", "+", ",", "-",
      ".", "/", "0", "1", "2", "3", "4", "5", "6", "7", "8", "9", ":", ";", "<",
      "=", ">", "?", "@", "A", "B", "C", "D", "E", "F", "G", "H", "I", "J", "K",
      "L", "M", "N", "O", "P", "Q", "R", "S", "T", "U", "V", "W", "X", "Y", "Z",
      "[", "\\", "]", "^", "_", "\\x60", "a", "b", "c", "d", "e", "f", "g", "h",
      "i", "j", "k", "l", "m", "n", "o", "p", "q", "r", "s", "t", "u", "v", "w",
      "x", "y", "z", "{", "|", "}", "~">>

LowerChars == <<"a","b","c","d","e","f","g","h","i","j","k","l","m",
                "n","o","p","q","r","s","t","u","v","w","x","y","z">>

Digits == {"0","1","2","3","4","5","6","7","8","9"}

DigitChars == <<"0","1","2","3","4","5","6","7","8","9">>

HexChars == <<"0","1","2","3","4","5","6","7","8","9","a","b","c","d","e","f">>

\* n in hexadecimal, `width` characters wide
RECURSIVE Hex(_, _)
Hex(n, width) ==
    IF width = 0 THEN ""
    ELSE Hex(n \div 16, width - 1) \o HexChars[(n % 16) + 1]

\* chr(code).  A character that has no one-character TLA+ string is written
\* as its Python escape: "\\x0b", "\\xe9", "\\u0130", "\\U0001d7ce".
Chr(code) ==
    IF code \in 32..126 THEN Ascii[code - 31]
    ELSE IF code = 9 THEN "\t"
    ELSE IF code = 10 THEN "\n"
    ELSE IF code = 12 THEN "\f"
    ELSE IF code = 13 THEN "\r"
    ELSE IF code < 256 THEN "\\x" \o Hex(code, 2)
    ELSE IF code < 65536 THEN "\\u" \o Hex(code, 4)
    ELSE "\\U" \o Hex(code, 8)

\* The lower case of the characters str.lower() changes into one other
\* character (Unicode 14.0), four numbers a row: first, last, step, delta
\* stand for the code points first, first + step, ..., last, each lowered
\* to itself plus delta.
LowerRanges ==
    <<65, 90, 1, 32, 192, 214, 1, 32, 216, 222, 1, 32, 256, 302, 2, 1,
      306, 310, 2, 1, 313, 327, 2, 1, 330, 374, 2, 1, 376, 376, 1, -121,
      377, 381, 2, 1, 385, 385, 1, 210, 386, 388, 2, 1, 390, 390, 1, 206,
      391, 391, 1, 1, 393, 394, 1, 205, 395, 395, 1, 1, 398, 398, 1, 79,
      399, 399, 1, 202, 400, 400, 1, 203, 401, 401, 1, 1, 403, 403, 1,
      205, 404, 404, 1, 207, 406, 406, 1, 211, 407, 407, 1, 209, 408, 408,
      1, 1, 412, 412, 1, 211, 413, 413, 1, 213, 415, 415, 1, 214, 416,
      420, 2, 1, 422, 422, 1, 218, 423, 423, 1, 1, 425, 425, 1, 218, 428,
      428, 1, 1, 430, 430, 1, 218, 431, 431, 1, 1, 433, 434, 1, 217, 435,
      437, 2, 1, 439, 439, 1, 219, 440, 440, 1, 1, 444, 444, 1, 1, 452,
      452, 1, 2, 453, 453, 1, 1, 455, 455, 1, 2, 456, 456, 1, 1, 458, 458,
      1, 2, 459, 475, 2, 1, 478, 494, 2, 1, 497, 497, 1, 2, 498, 500, 2,
      1, 502, 502, 1, -97, 503, 503, 1, -56, 504, 542, 2, 1, 544, 544, 1,
      -130, 546, 562, 2, 1, 570, 570, 1, 10795, 571, 571, 1, 1, 573, 573,
      1, -163, 574, 574, 1, 10792, 577, 577, 1, 1, 579, 579, 1, -195, 580,
      580, 1, 69, 581, 581, 1, 71, 582, 590, 2, 1, 880, 882, 2, 1, 886,
      886, 1, 1, 895, 895, 1, 116, 902, 902, 1, 38, 904, 906, 1, 37, 908,
      908, 1, 64, 910, 911, 1, 63, 913, 929, 1, 32, 931, 939, 1, 32, 975,
      975, 1, 8, 984, 1006, 2, 1, 1012, 1012, 1, -60, 1015, 1015, 1, 1,
      1017, 1017, 1, -7, 1018, 1018, 1, 1, 1021, 1023, 1, -130, 1024,
      1039, 1, 80, 1040, 1071, 1, 32, 1120, 1152, 2, 1, 1162, 1214, 2, 1,
      1216, 1216, 1, 15, 1217, 1229, 2, 1, 1232, 1326, 2, 1, 1329, 1366,
      1, 48, 4256, 4293, 1, 7264, 4295, 4295, 1, 7264, 4301, 4301, 1,
      7264, 5024, 5103, 1, 38864, 5104, 5109, 1, 8, 7312, 7354, 1, -3008,
      7357, 7359, 1, -3008, 7680, 7828, 2, 1, 7838, 7838, 1, -7615, 7840,
      7934, 2, 1, 7944, 7951, 1, -8, 7960, 7965, 1, -8, 7976, 7983, 1, -8,
      7992, 7999, 1, -8, 8008, 8013, 1, -8, 8025, 8031, 2, -8, 8040, 8047,
      1, -8, 8072, 8079, 1, -8, 8088, 8095, 1, -8, 8104, 8111, 1, -8,
      8120, 8121, 1, -8, 8122, 8123, 1, -74, 8124, 8124, 1, -9, 8136,
      8139, 1, -86, 8140, 8140, 1, -9, 8152, 8153, 1, -8, 8154, 8155, 1,
      -100, 8168, 8169, 1, -8, 8170, 8171, 1, -112, 8172, 8172, 1, -7,
      8184, 8185, 1, -128, 8186, 8187, 1, -126, 8188, 8188, 1, -9, 8486,
      8486, 1, -7517, 8490, 8490, 1, -8383, 8491, 8491, 1, -8262, 8498,
      8498, 1, 28, 8544, 8559, 1, 16, 8579, 8579, 1, 1, 9398, 9423, 1, 26,
      11264, 11311, 1, 48, 11360, 11360, 1, 1, 11362, 11362, 1, -10743,
      11363, 11363, 1, -3814, 11364, 11364, 1, -10727, 11367, 11371, 2, 1,
      11373, 11373, 1, -10780, 11374, 11374, 1, -10749, 11375, 11375, 1,
      -10783, 11376, 11376, 1, -10782, 11378, 11378, 1, 1, 11381, 11381,
      1, 1, 11390, 11391, 1, -10815, 11392, 11490, 2, 1, 11499, 11501, 2,
      1, 11506, 11506, 1, 1, 42560, 42604, 2, 1, 42624, 42650, 2, 1,
      42786, 42798, 2, 1, 42802, 42862, 2, 1, 42873, 42875, 2, 1, 42877,
      42877, 1, -35332, 42878, 42886, 2, 1, 42891, 42891, 1, 1, 42893,
      42893, 1, -42280, 42896, 42898, 2, 1, 42902, 42920, 2, 1, 42922,
      42922, 1, -42308, 42923, 42923, 1, -42319, 42924, 42924, 1, -42315,
      42925, 42925, 1, -42305, 42926, 42926, 1, -42308, 42928, 42928, 1,
      -42258, 42929, 42929, 1, -42282, 42930, 42930, 1, -42261, 42931,
      42931, 1, 928, 42932, 42946, 2, 1, 42948, 42948, 1, -48, 42949,
      42949, 1, -42307, 42950, 42950, 1, -35384, 42951, 42953, 2, 1,
      42960, 42960, 1, 1, 42966, 42968, 2, 1, 42997, 42997, 1, 1, 65313,
      65338, 1, 32, 66560, 66599, 1, 40, 66736, 66771, 1, 40, 66928,
      66938, 1, 39, 66940, 66954, 1, 39, 66956, 66962, 1, 39, 66964,
      66965, 1, 39, 68736, 68786, 1, 64, 71840, 71871, 1, 32, 93760,
      93791, 1, 32, 125184, 125217, 1, 34>>

\* The pairs <<character, its lower case>> of a table of such rows
PairsOf(ranges) ==
    UNION {{<<Chr(ranges[n + 1] + ranges[n + 3] * k),
              Chr(ranges[n + 1] + ranges[n + 3] * k + ranges[n + 4])>> :
               k \in 0..((ranges[n + 2] - ranges[n + 1]) \div ranges[n + 3])} :
           n \in {4 * m : m \in 0..((Len(ranges) \div 4) - 1)}}

\* The function that takes the first of each pair to the second
MapOf(pairs) ==
    [c \in {p[1] : p \in pairs} |-> (CHOOSE p \in pairs : p[1] = c)[2]]

LowerMap == MapOf(PairsOf(LowerRanges))

\* The lower case of the character c under the table `map`.  The capital I
\* with a dot above is the one character whose lower case is two
\* characters.
LowerIn(c, map) ==
    IF c = "\\u0130" THEN <<"i", "\\u0307">>
    ELSE IF c \in DOMAIN map THEN <<map[c]>>
    ELSE <<c>>

\* str.lower() on a string of one character c
LowerChar(c) == LowerIn(c, LowerMap)

\* The characters the rule of the final sigma looks at: the cased
\* characters that are not case-ignorable, and the case-ignorable ones
\* (two numbers a run of code points: first, last).
CasedRanges ==
    <<65, 90, 97, 122, 170, 170, 181, 181, 186, 186, 192, 214, 216, 246,
      248, 442, 444, 447, 452, 659, 661, 687, 880, 883, 886, 887, 891,
      893, 895, 895, 902, 902, 904, 906, 908, 908, 910, 929, 931, 1013,
      1015, 1153, 1162, 1327, 1329, 1366, 1376, 1416, 4256, 4293, 4295,
      4295, 4301, 4301, 4304, 4346, 4349, 4351, 5024, 5109, 5112, 5117,
      7296, 7304, 7312, 7354, 7357, 7359, 7424, 7467, 7531, 7543, 7545,
      7578, 7680, 7957, 7960, 7965, 7968, 8005, 8008, 8013, 8016, 8023,
      8025, 8025, 8027, 8027, 8029, 8029, 8031, 8061, 8064, 8116, 8118,
      8124, 8126, 8126, 8130, 8132, 8134, 8140, 8144, 8147, 8150, 8155,
      8160, 8172, 8178, 8180, 8182, 8188, 8450, 8450, 8455, 8455, 8458,
      8467, 8469, 8469, 8473, 8477, 8484, 8484, 8486, 8486, 8488, 8488,
      8490, 8493, 8495, 8500, 8505, 8505, 8508, 8511, 8517, 8521, 8526,
      8526, 8544, 8575, 8579, 8580, 9398, 9449, 11264, 11387, 11390,
      11492, 11499, 11502, 11506, 11507, 11520, 11557, 11559, 11559,
      11565, 11565, 42560, 42605, 42624, 42651, 42786, 42863, 42865,
      42887, 42891, 42894, 42896, 42954, 42960, 42961, 42963, 42963,
      42965, 42969, 42997, 42998, 43002, 43002, 43824, 43866, 43872,
      43880, 43888, 43967, 64256, 64262, 64275, 64279, 65313, 65338,
      65345, 65370, 66560, 66639, 66736, 66771, 66776, 66811, 66928,
      66938, 66940, 66954, 66956, 66962, 66964, 66965, 66967, 66977,
      66979, 66993, 66995, 67001, 67003, 67004, 68736, 68786, 68800,
      68850, 71840, 71903, 93760, 93823, 119808, 119892, 119894, 119964,
      119966, 119967, 119970, 119970, 119973, 119974, 119977, 119980,
      119982, 119993, 119995, 119995, 119997, 120003, 120005, 120069,
      120071, 120074, 120077, 120084, 120086, 120092, 120094, 120121,
      120123, 120126, 120128, 120132, 120134, 120134, 120138, 120144,
      120146, 120485, 120488, 120512, 120514, 120538, 120540, 120570,
      120572, 120596, 120598, 120628, 120630, 120654, 120656, 120686,
      120688, 120712, 120714, 120744, 120746, 120770, 120772, 120779,
      122624, 122633, 122635, 122654, 125184, 125251, 127280, 127305,
      127312, 127337, 127344, 127369>>

CaseIgnorableRanges ==
    <<39, 39, 46, 46, 58, 58, 94, 94, 96, 96, 168, 168, 173, 173, 175,
      175, 180, 180, 183, 184, 688, 879, 884, 885, 890, 890, 900, 901,
      903, 903, 1155, 1161, 1369, 1369, 1375, 1375, 1425, 1469, 1471,
      1471, 1473, 1474, 1476, 1477, 1479, 1479, 1524, 1524, 1536, 1541,
      1552, 1562, 1564, 1564, 1600, 1600, 1611, 1631, 1648, 1648, 1750,
      1757, 1759, 1768, 1770, 1773, 1807, 1807, 1809, 1809, 1840, 1866,
      1958, 1968, 2027, 2037, 2042, 2042, 2045, 2045, 2070, 2093, 2137,
      2139, 2184, 2184, 2192, 2193, 2200, 2207, 2249, 2306, 2362, 2362,
      2364, 2364, 2369, 2376, 2381, 2381, 2385, 2391, 2402, 2403, 2417,
      2417, 2433, 2433, 2492, 2492, 2497, 2500, 2509, 2509, 2530, 2531,
      2558, 2558, 2561, 2562, 2620, 2620, 2625, 2626, 2631, 2632, 2635,
      2637, 2641, 2641, 2672, 2673, 2677, 2677, 2689, 2690, 2748, 2748,
      2753, 2757, 2759, 2760, 2765, 2765, 2786, 2787, 2810, 2815, 2817,
      2817, 2876, 2876, 2879, 2879, 2881, 2884, 2893, 2893, 2901, 2902,
      2914, 2915, 2946, 2946, 3008, 3008, 3021, 3021, 3072, 3072, 3076,
      3076, 3132, 3132, 3134, 3136, 3142, 3144, 3146, 3149, 3157, 3158,
      3170, 3171, 3201, 3201, 3260, 3260, 3263, 3263, 3270, 3270, 3276,
      3277, 3298, 3299, 3328, 3329, 3387, 3388, 3393, 3396, 3405, 3405,
      3426, 3427, 3457, 3457, 3530, 3530, 3538, 3540, 3542, 3542, 3633,
      3633, 3636, 3642, 3654, 3662, 3761, 3761, 3764, 3772, 3782, 3782,
      3784, 3789, 3864, 3865, 3893, 3893, 3895, 3895, 3897, 3897, 3953,
      3966, 3968, 3972, 3974, 3975, 3981, 3991, 3993, 4028, 4038, 4038,
      4141, 4144, 4146, 4151, 4153, 4154, 4157, 4158, 4184, 4185, 4190,
      4192, 4209, 4212, 4226, 4226, 4229, 4230, 4237, 4237, 4253, 4253,
      4348, 4348, 4957, 4959, 5906, 5908, 5938, 5939, 5970, 5971, 6002,
      6003, 6068, 6069, 6071, 6077, 6086, 6086, 6089, 6099, 6103, 6103,
      6109, 6109, 6155, 6159, 6211, 6211, 6277, 6278, 6313, 6313, 6432,
      6434, 6439, 6440, 6450, 6450, 6457, 6459, 6679, 6680, 6683, 6683,
      6742, 6742, 6744, 6750, 6752, 6752, 6754, 6754, 6757, 6764, 6771,
      6780, 6783, 6783, 6823, 6823, 6832, 6862, 6912, 6915, 6964, 6964,
      6966, 6970, 6972, 6972, 6978, 6978, 7019, 7027, 7040, 7041, 7074,
      7077, 7080, 7081, 7083, 7085, 7142, 7142, 7144, 7145, 7149, 7149,
      7151, 7153, 7212, 7219, 7222, 7223, 7288, 7293, 7376, 7378, 7380,
      7392, 7394, 7400, 7405, 7405, 7412, 7412, 7416, 7417, 7468, 7530,
      7544, 7544, 7579, 7679, 8125, 8125, 8127, 8129, 8141, 8143, 8157,
      8159, 8173, 8175, 8189, 8190, 8203, 8207, 8216, 8217, 8228, 8228,
      8231, 8231, 8234, 8238, 8288, 8292, 8294, 8303, 8305, 8305, 8319,
      8319, 8336, 8348, 8400, 8432, 11388, 11389, 11503, 11505, 11631,
      11631, 11647, 11647, 11744, 11775, 11823, 11823, 12293, 12293,
      12330, 12333, 12337, 12341, 12347, 12347, 12441, 12446, 12540,
      12542, 40981, 40981, 42232, 42237, 42508, 42508, 42607, 42610,
      42612, 42621, 42623, 42623, 42652, 42655, 42736, 42737, 42752,
      42785, 42864, 42864, 42888, 42890, 42994, 42996, 43000, 43001,
      43010, 43010, 43014, 43014, 43019, 43019, 43045, 43046, 43052,
      43052, 43204, 43205, 43232, 43249, 43263, 43263, 43302, 43309,
      43335, 43345, 43392, 43394, 43443, 43443, 43446, 43449, 43452,
      43453, 43471, 43471, 43493, 43494, 43561, 43566, 43569, 43570,
      43573, 43574, 43587, 43587, 43596, 43596, 43632, 43632, 43644,
      43644, 43696, 43696, 43698, 43700, 43703, 43704, 43710, 43711,
      43713, 43713, 43741, 43741, 43756, 43757, 43763, 43764, 43766,
      43766, 43867, 43871, 43881, 43883, 44005, 44005, 44008, 44008,
      44013, 44013, 64286, 64286, 64434, 64450, 65024, 65039, 65043,
      65043, 65056, 65071, 65106, 65106, 65109, 65109, 65279, 65279,
      65287, 65287, 65294, 65294, 65306, 65306, 65342, 65342, 65344,
      65344, 65392, 65392, 65438, 65439, 65507, 65507, 65529, 65531,
      66045, 66045, 66272, 66272, 66422, 66426, 67456, 67461, 67463,
      67504, 67506, 67514, 68097, 68099, 68101, 68102, 68108, 68111,
      68152, 68154, 68159, 68159, 68325, 68326, 68900, 68903, 69291,
      69292, 69446, 69456, 69506, 69509, 69633, 69633, 69688, 69702,
      69744, 69744, 69747, 69748, 69759, 69761, 69811, 69814, 69817,
      69818, 69821, 69821, 69826, 69826, 69837, 69837, 69888, 69890,
      69927, 69931, 69933, 69940, 70003, 70003, 70016, 70017, 70070,
      70078, 70089, 70092, 70095, 70095, 70191, 70193, 70196, 70196,
      70198, 70199, 70206, 70206, 70367, 70367, 70371, 70378, 70400,
      70401, 70459, 70460, 70464, 70464, 70502, 70508, 70512, 70516,
      70712, 70719, 70722, 70724, 70726, 70726, 70750, 70750, 70835,
      70840, 70842, 70842, 70847, 70848, 70850, 70851, 71090, 71093,
      71100, 71101, 71103, 71104, 71132, 71133, 71219, 71226, 71229,
      71229, 71231, 71232, 71339, 71339, 71341, 71341, 71344, 71349,
      71351, 71351, 71453, 71455, 71458, 71461, 71463, 71467, 71727,
      71735, 71737, 71738, 71995, 71996, 71998, 71998, 72003, 72003,
      72148, 72151, 72154, 72155, 72160, 72160, 72193, 72202, 72243,
      72248, 72251, 72254, 72263, 72263, 72273, 72278, 72281, 72283,
      72330, 72342, 72344, 72345, 72752, 72758, 72760, 72765, 72767,
      72767, 72850, 72871, 72874, 72880, 72882, 72883, 72885, 72886,
      73009, 73014, 73018, 73018, 73020, 73021, 73023, 73029, 73031,
      73031, 73104, 73105, 73109, 73109, 73111, 73111, 73459, 73460,
      78896, 78904, 92912, 92916, 92976, 92982, 92992, 92995, 94031,
      94031, 94095, 94111, 94176, 94177, 94179, 94180, 110576, 110579,
      110581, 110587, 110589, 110590, 113821, 113822, 113824, 113827,
      118528, 118573, 118576, 118598, 119143, 119145, 119155, 119170,
      119173, 119179, 119210, 119213, 119362, 119364, 121344, 121398,
      121403, 121452, 121461, 121461, 121476, 121476, 121499, 121503,
      121505, 121519, 122880, 122886, 122888, 122904, 122907, 122913,
      122915, 122916, 122918, 122922, 123184, 123197, 123566, 123566,
      123628, 123631, 125136, 125142, 125252, 125259, 127995, 127999,
      917505, 917505, 917536, 917631, 917760, 917999>>

CharsOf(ranges) ==
    UNION {{Chr(code) : code \in ranges[n + 1]..ranges[n + 2]} :
           n \in {2 * m : m \in 0..((Len(ranges) \div 2) - 1)}}

Cased == CharsOf(CasedRanges)

CaseIgnorable == CharsOf(CaseIgnorableRanges)

\* The capital sigma s[i] is lowered to the final sigma: the nearest
\* character before it that is not in `ignorable` is in `cased`, and the
\* nearest one after it, if any, is not.
FinalSigma(s, i, cased, ignorable) ==
    LET before == {j \in 1..(i - 1) : s[j] \notin ignorable}
        after  == {j \in (i + 1)..Len(s) : s[j] \notin ignorable}
    IN  /\ before # {}
        /\ s[CHOOSE j \in before : \A k \in before : k <= j] \in cased
        /\ \/ after = {}
           \/ s[CHOOSE j \in after : \A k \in after : j <= k] \notin cased

RECURSIVE LowerFrom(_, _)
LowerFrom(s, i) ==
    IF i > Len(s) THEN <<>>
    ELSE (IF s[i] = "\\u03a3" /\ FinalSigma(s, i, Cased, CaseIgnorable)
          THEN <<"\\u03c2">>
          ELSE LowerChar(s[i])) \o LowerFrom(s, i + 1)

\* str.lower()
lower(s) == LowerFrom(s, 1)

\* the character class [a-z0-9 ]
Allowed(c) == (\E i \in 1..26 : LowerChars[i] = c) \/ c \in Digits \/ c = " "

\* re.sub(r'[^a-z0-9 ]', ' ', s)
SubNonAlnum(s) == [i \in 1..Len(s) |-> IF Allowed(s[i]) THEN s[i] ELSE " "]

\* The characters \s matches, which are also the characters str.isspace()
\* accepts and str.strip() and str.split() remove.  A character that has no
\* one-character TLA+ string is written as its Python escape.
WhiteSpace ==
    {" ", "\t", "\n", "\\x0b", "\f", "\r",
     "\\x1c", "\\x1d", "\\x1e", "\\x1f", "\\x85", "\\xa0", "\\u1680",
     "\\u2000", "\\u2001", "\\u2002", "\\u2003", "\\u2004", "\\u2005",
     "\\u2006", "\\u2007", "\\u2008", "\\u2009", "\\u200a",
     "\\u2028", "\\u2029", "\\u202f", "\\u205f", "\\u3000"}

IsSpace(c) == c \in WhiteSpace

\* re.sub(r'\s+', ' ', s): every maximal run of whitespace becomes one space
RECURSIVE SubSpaces(_)
SubSpaces(s) ==
    IF s = <<>> THEN <<>>
    ELSE IF IsSpace(Head(s))
         THEN IF Len(s) > 1 /\ IsSpace(s[2])
              THEN SubSpaces(Tail(s))
              ELSE <<" ">> \o SubSpaces(Tail(s))
         ELSE <<Head(s)>> \o SubSpaces(Tail(s))

RECURSIVE lstrip(_)
lstrip(s) == IF s # <<>> /\ IsSpace(Head(s)) THEN lstrip(Tail(s)) ELSE s

RECURSIVE rstrip(_)
rstrip(s) ==
    IF s # <<>> /\ IsSpace(s[Len(s)]) THEN rstrip(SubSeq(s, 1, Len(s) - 1)) ELSE s

\* str.strip()
strip(s) == rstrip(lstrip(s))

\* str.split(): the maximal runs of non-whitespace characters, in order
RECURSIVE SplitFrom(_, _)
SplitFrom(s, cur) ==
    IF s = <<>> THEN (IF cur = <<>> THEN <<>> ELSE <<cur>>)
    ELSE IF IsSpace(Head(s))
         THEN (IF cur = <<>> THEN <<>> ELSE <<cur>>) \o SplitFrom(Tail(s), <<>>)
         ELSE SplitFrom(Tail(s), Append(cur, Head(s)))

split(s) == SplitFrom(s, <<>>)

\* ' '.join(toks)
RECURSIVE join(_)
join(toks) ==
    IF toks = <<>> THEN <<>>
    ELSE IF Len(toks) = 1 THEN toks[1]
    ELSE toks[1] \o <<" ">> \o join(Tail(toks))

\* w in s, for strings
Contains(s, w) ==
    \E i \in 0..(Len(s) - Len(w)) : SubSeq(s, i + 1, i + Len(w)) = w

\* t in toks, for a list of strings
InList(t, toks) == \E i \in 1..Len(toks) : toks[i] = t

\* toks[i:i + n] with Python's 0-based i; the slice is cut at the end of the list
Slice(toks, i, n) ==
    SubSeq(toks, i + 1, IF i + n <= Len(toks) THEN i + n ELSE Len(toks))

Max(a, b) == IF a >= b THEN a ELSE b

(***************************************************************************)
(* difflib.SequenceMatcher(None, a, b).ratio() for short strings (no junk, *)
(* autojunk is off below 200 characters).  Indices are 1-based, hi bounds  *)
(* exclusive as in difflib.                                                *)
(***************************************************************************)
\* length of the common run of a from i and b from j inside the windows
RECURSIVE RunLen(_, _, _, _, _, _)
RunLen(a, b, i, j, ahi, bhi) ==
    IF i < ahi /\ j < bhi /\ a[i] = b[j]
    THEN 1 + RunLen(a, b, i + 1, j + 1, ahi, bhi)
    ELSE 0

\* the longest matching block <<i, j, k>>: maximal k, then the earliest start
\* in a, then the earliest start in b; <<alo, blo, 0>> when nothing matches
find_longest_match(a, b, alo, ahi, blo, bhi) ==
    LET P == {p \in (alo..(ahi - 1)) \X (blo..(bhi - 1)) : a[p[1]] = b[p[2]]}
        L == [p \in P |-> RunLen(a, b, p[1], p[2], ahi, bhi)]
    IN  IF P = {} THEN <<alo, blo, 0>>
        ELSE LET best == CHOOSE p \in P :
                            \A q \in P :
                               \/ L[p] > L[q]
                               \/ L[p] = L[q] /\ p[1] < q[1]
                               \/ L[p] = L[q] /\ p[1] = q[1] /\ p[2] <= q[2]
             IN  <<best[1], best[2], L[best]>>

\* the sum of the sizes of get_matching_blocks(): the longest block <<i, j, k>>
\* of the window, then the blocks to its left and to its right
RECURSIVE Matches(_, _, _, _, _, _)
MatchesAround(a, b, alo, ahi, blo, bhi, i, j, k) ==
    IF k = 0 THEN 0
    ELSE k
         + (IF alo < i /\ blo < j THEN Matches(a, b, alo, i, blo, j) ELSE 0)
         + (IF i + k < ahi /\ j + k < bhi
            THEN Matches(a, b, i + k, ahi, j + k, bhi) ELSE 0)

MatchesOf(a, b, alo, ahi, blo, bhi, m) ==
    MatchesAround(a, b, alo, ahi, blo, bhi, m[1], m[2], m[3])

Matches(a, b, alo, ahi, blo, bhi) ==
    MatchesOf(a, b, alo, ahi, blo, bhi,
              find_longest_match(a, b, alo, ahi, blo, bhi))

\* ratio(): 2.0 * matches / (len(a) + len(b)), and 1.0 for two empty strings
ratio(a, b) ==
    IF Len(a) + Len(b) = 0 THEN <<1, 1>>
    ELSE Frac(2 * Matches(a, b, 1, Len(a) + 1, 1, Len(b) + 1), Len(a) + Len(b))

(***************************************************************************)
(* The wake-word scorer, main.py is_wake_word                              *)
(***************************************************************************)
\* "hey sathi", "hi sathi", "ok sathi", "sathi", "hello sathi", "dear sathi",
\* "sathi please", "sathi help", "listen sathi", "sathi are you there"
WAKE_WORDS == <<
    <<"h","e","y"," ","s","a","t","h","i">>,
    <<"h","i"," ","s","a","t","h","i">>,
    <<"o","k"," ","s","a","t","h","i">>,
    <<"s","a","t","h","i">>,
    <<"h","e","l","l","o"," ","s","a","t","h","i">>,
    <<"d","e","a","r"," ","s","a","t","h","i">>,
    <<"s","a","t","h","i"," ","p","l","e","a","s","e">>,
    <<"s","a","t","h","i"," ","h","e","l","p">>,
    <<"l","i","s","t","e","n"," ","s","a","t","h","i">>,
    <<"s","a","t","h","i"," ","a","r","e"," ","y","o","u"," ","t","h","e","r","e">>
    >>

\* the default span_threshold=0.65 and token_threshold=0.85
span_threshold == Frac(65, 100)

token_threshold == Frac(85, 100)

\* a variant of NormText without the strip() of line 65
NormText_unstripped(text) == SubSpaces(SubNonAlnum(lower(text)))

\* lines 64-65: the normalization of the incoming text
NormText(text) == strip(SubSpaces(SubNonAlnum(lower(text))))

\* lines 71-72: the normalization of a wake phrase (strip first, then collapse)
NormWake(wake) == SubSpaces(strip(SubNonAlnum(lower(wake))))

\* lines 92-98: the windows i, i+1, .., n-1 of win_len tokens against w.
\* The result is [ret |-> TRUE, val |-> the score returned] or
\* [ret |-> FALSE, val |-> best_score after the loop].
RECURSIVE WindowLoop(_, _, _, _, _, _)
\* lines 95-98, for the score of window i
WindowBody(tokens, w, win_len, i, n, best, score) ==
    IF Geq(score, span_threshold)
    THEN [ret |-> TRUE, val |-> score]
    ELSE WindowLoop(tokens, w, win_len, i + 1, n,
                    IF Gt(score, best) THEN score ELSE best)

WindowLoop(tokens, w, win_len, i, n, best) ==
    IF i >= n THEN [ret |-> FALSE, val |-> best]
    ELSE WindowBody(tokens, w, win_len, i, n, best,
                    ratio(join(Slice(tokens, i, win_len)), w))

\* lines 101-107: the pairs (wt, tk), wt outer and tk inner, from pair p on
RECURSIVE TokenLoop(_, _, _, _)
\* lines 104-107, for the score s of pair p
TokenBody(tokens, w_tokens, p, best, s) ==
    IF Geq(s, token_threshold)
    THEN [ret |-> TRUE, val |-> s]
    ELSE TokenLoop(tokens, w_tokens, p + 1, IF Gt(s, best) THEN s ELSE best)

TokenLoop(tokens, w_tokens, p, best) ==
    IF p >= Len(w_tokens) * Len(tokens) THEN [ret |-> FALSE, val |-> best]
    ELSE TokenBody(tokens, w_tokens, p, best,
                   ratio(tokens[(p % Len(tokens)) + 1],
                         w_tokens[(p \div Len(tokens)) + 1]))

\* lines 100-107 after the window loop ended in win
AfterWindows(tokens, w_tokens, win) ==
    IF win.ret THEN win ELSE TokenLoop(tokens, w_tokens, 0, win.val)

\* a variant of WakeTiers without the skip of lines 73-74
WakeTiers_no_skip(norm, tokens, w, w_tokens, best) ==
    IF norm = w THEN [ret |-> TRUE, val |-> <<1, 1>>]
    ELSE IF Contains(norm, w) THEN [ret |-> TRUE, val |-> Frac(95, 100)]
    ELSE IF \A k \in 1..Len(w_tokens) : InList(w_tokens[k], tokens)
         THEN [ret |-> TRUE, val |-> Frac(9, 10)]
    ELSE AfterWindows(tokens, w_tokens,
             WindowLoop(tokens, w, Max(1, Len(w_tokens)), 0,
                        Max(1, Len(tokens) - Max(1, Len(w_tokens)) + 1), best))

\* a variant of WakeTiers without the exact tier of lines 77-78
WakeTiers_no_exact(norm, tokens, w, w_tokens, best) ==
    IF w = <<>> THEN [ret |-> FALSE, val |-> best]
    ELSE IF Contains(norm, w) THEN [ret |-> TRUE, val |-> Frac(95, 100)]
    ELSE IF \A k \in 1..Len(w_tokens) : InList(w_tokens[k], tokens)
         THEN [ret |-> TRUE, val |-> Frac(9, 10)]
    ELSE AfterWindows(tokens, w_tokens,
             WindowLoop(tokens, w, Max(1, Len(w_tokens)), 0,
                        Max(1, Len(tokens) - Max(1, Len(w_tokens)) + 1), best))

\* a variant of WakeTiers that looks at the tokens before the substring
WakeTiers_tokens_first(norm, tokens, w, w_tokens, best) ==
    IF w = <<>> THEN [ret |-> FALSE, val |-> best]
    ELSE IF norm = w THEN [ret |-> TRUE, val |-> <<1, 1>>]
    ELSE IF \A k \in 1..Len(w_tokens) : InList(w_tokens[k], tokens)
         THEN [ret |-> TRUE, val |-> Frac(9, 10)]
    ELSE IF Contains(norm, w) THEN [ret |-> TRUE, val |-> Frac(95, 100)]
    ELSE AfterWindows(tokens, w_tokens,
             WindowLoop(tokens, w, Max(1, Len(w_tokens)), 0,
                        Max(1, Len(tokens) - Max(1, Len(w_tokens)) + 1), best))

\* a variant of WakeTiers without the token-subset tier of lines 87-88
WakeTiers_no_subset(norm, tokens, w, w_tokens, best) ==
    IF w = <<>> THEN [ret |-> FALSE, val |-> best]
    ELSE IF norm = w THEN [ret |-> TRUE, val |-> <<1, 1>>]
    ELSE IF Contains(norm, w) THEN [ret |-> TRUE, val |-> Frac(95, 100)]
    ELSE AfterWindows(tokens, w_tokens,
             WindowLoop(tokens, w, Max(1, Len(w_tokens)), 0,
                        Max(1, Len(tokens) - Max(1, Len(w_tokens)) + 1), best))

\* lines 73-107 for the normalized phrase w and its tokens
WakeTiers(norm, tokens, w, w_tokens, best) ==
    IF w = <<>> THEN [ret |-> FALSE, val |-> best]
    ELSE IF norm = w THEN [ret |-> TRUE, val |-> <<1, 1>>]
    ELSE IF Contains(norm, w) THEN [ret |-> TRUE, val |-> Frac(95, 100)]
    ELSE IF \A k \in 1..Len(w_tokens) : InList(w_tokens[k], tokens)
         THEN [ret |-> TRUE, val |-> Frac(9, 10)]
    ELSE AfterWindows(tokens, w_tokens,
             WindowLoop(tokens, w, Max(1, Len(w_tokens)), 0,
                        Max(1, Len(tokens) - Max(1, Len(w_tokens)) + 1), best))

WakeTokens(norm, tokens, w, best) == WakeTiers(norm, tokens, w, split(w), best)

\* lines 71-107: one iteration of the loop over the wake phrases
WakeIteration(norm, tokens, wake, best) ==
    WakeTokens(norm, tokens, NormWake(wake), best)

\* lines 70-109: the loop from phrase k on; the first return wins
RECURSIVE WakeLoop(_, _, _, _, _)
WakeStop(norm, tokens, phrases, k, r) ==
    IF r.ret THEN r.val ELSE WakeLoop(norm, tokens, phrases, k + 1, r.val)

WakeLoop(norm, tokens, phrases, k, best) ==
    IF k > Len(phrases) THEN best
    ELSE WakeStop(norm, tokens, phrases, k,
                  WakeIteration(norm, tokens, phrases[k], best))

\* lines 64-109 for the normalized text
ScoreNormalized(norm, phrases) == WakeLoop(norm, split(norm), phrases, 1, <<0, 1>>)

\* is_wake_word with the module-level WAKE_WORDS passed as phrases
wake_score(text, phrases) ==
    IF text = <<>> THEN <<0, 1>> ELSE ScoreNormalized(NormText(text), phrases)

is_wake_word(text) == wake_score(text, WAKE_WORDS)

(***************************************************************************)
(* Regular expressions of calendar_and_clock.py.  The templates use only   *)
(* literals, groups, alternation, the optional "?" and one lazy ".*?", so  *)
(* a template is a small tree and re.search is: some offset from which the *)
(* tree can match.                                                         *)
(***************************************************************************)
Lit(s) == [op |-> "lit", s |-> s, rs |-> <<>>]

AnyLazy == [op |-> "any", s |-> <<>>, rs |-> <<>>]

Cat(rs) == [op |-> "cat", s |-> <<>>, rs |-> rs]

Alt(rs) == [op |-> "alt", s |-> <<>>, rs |-> rs]

Opt(r) == Alt(<<r, Lit(<<>>)>>)

\* the offsets at which a match of r that starts at offset pos of s can end
RECURSIVE Ends(_, _, _)
RECURSIVE CatEnds(_, _, _, _)
Ends(r, s, pos) ==
    CASE r.op = "lit" ->
           IF pos + Len(r.s) <= Len(s) /\ SubSeq(s, pos + 1, pos + Len(r.s)) = r.s
           THEN {pos + Len(r.s)} ELSE {}
      [] r.op = "any" ->
           {e \in pos..Len(s) : \A i \in (pos + 1)..e : s[i] # "\n"}
      [] r.op = "alt" ->
           UNION {Ends(r.rs[k], s, pos) : k \in 1..Len(r.rs)}
      [] r.op = "cat" -> CatEnds(r.rs, 1, s, {pos})

CatEnds(rs, k, s, P) ==
    IF k > Len(rs) THEN P
    ELSE CatEnds(rs, k + 1, s, UNION {Ends(rs[k], s, p) : p \in P})

\* re.search(pattern, s) finds a match
search(r, s) == \E pos \in 0..Len(s) : Ends(r, s, pos) # {}

TIME_PATTERNS == <<
    \* r"what(?:'s| is) the time"
    Cat(<<Lit(<<"w","h","a","t">>), Alt(<<Lit(<<"'","s">>), Lit(<<" ","i","s">>)>>), Lit(<<" ","t","h","e"," ","t","i","m","e">>)>>),
    \* r"tell me the time"
    Lit(<<"t","e","l","l"," ","m","e"," ","t","h","e"," ","t","i","m","e">>),
    \* r"current time"
    Lit(<<"c","u","r","r","e","n","t"," ","t","i","m","e">>),
    \* r"time now"
    Lit(<<"t","i","m","e"," ","n","o","w">>),
    \* r"what time (is it|do we have)"
    Cat(<<Lit(<<"w","h","a","t"," ","t","i","m","e"," ">>), Alt(<<Lit(<<"i","s"," ","i","t">>), Lit(<<"d","o"," ","w","e"," ","h","a","v","e">>)>>)>>),
    \* r"(?:can you )?tell me what time it is"
    Cat(<<Opt(Lit(<<"c","a","n"," ","y","o","u"," ">>)), Lit(<<"t","e","l","l"," ","m","e"," ","w","h","a","t"," ","t","i","m","e"," ","i","t"," ","i","s">>)>>),
    \* r"do you know the time"
    Lit(<<"d","o"," ","y","o","u"," ","k","n","o","w"," ","t","h","e"," ","t","i","m","e">>),
    \* r"check the time"
    Lit(<<"c","h","e","c","k"," ","t","h","e"," ","t","i","m","e">>)
    >>

DATE_PATTERNS == <<
    \* r"what(?:'s| is) (?:the )?date(?:.*?today)?"
    Cat(<<Lit(<<"w","h","a","t">>), Alt(<<Lit(<<"'","s">>), Lit(<<" ","i","s">>)>>), Lit(<<" ">>), Opt(Lit(<<"t","h","e"," ">>)), Lit(<<"d","a","t","e">>), Opt(Cat(<<AnyLazy, Lit(<<"t","o","d","a","y">>)>>))>>),
    \* r"today's date"
    Lit(<<"t","o","d","a","y","'","s"," ","d","a","t","e">>),
    \* r"what (?:is the )?date"
    Cat(<<Lit(<<"w","h","a","t"," ">>), Opt(Lit(<<"i","s"," ","t","h","e"," ">>)), Lit(<<"d","a","t","e">>)>>),
    \* r"tell me (?:the |today's )?date"
    Cat(<<Lit(<<"t","e","l","l"," ","m","e"," ">>), Opt(Alt(<<Lit(<<"t","h","e"," ">>), Lit(<<"t","o","d","a","y","'","s"," ">>)>>)), Lit(<<"d","a","t","e">>)>>),
    \* r"(?:can you )?tell me (?:the )?date"
    Cat(<<Opt(Lit(<<"c","a","n"," ","y","o","u"," ">>)), Lit(<<"t","e","l","l"," ","m","e"," ">>), Opt(Lit(<<"t","h","e"," ">>)), Lit(<<"d","a","t","e">>)>>),
    \* r"what (?:is the )?date (?:today|now)"
    Cat(<<Lit(<<"w","h","a","t"," ">>), Opt(Lit(<<"i","s"," ","t","h","e"," ">>)), Lit(<<"d","a","t","e"," ">>), Alt(<<Lit(<<"t","o","d","a","y">>), Lit(<<"n","o","w">>)>>)>>),
    \* r"what day of the month is it"
    Lit(<<"w","h","a","t"," ","d","a","y"," ","o","f"," ","t","h","e"," ","m","o","n","t","h"," ","i","s"," ","i","t">>),
    \* r"which date is (?:it|today)"
    Cat(<<Lit(<<"w","h","i","c","h"," ","d","a","t","e"," ","i","s"," ">>), Alt(<<Lit(<<"i","t">>), Lit(<<"t","o","d","a","y">>)>>)>>),
    \* r"(?:what|which) date (?:do we have|is it)"
    Cat(<<Alt(<<Lit(<<"w","h","a","t">>), Lit(<<"w","h","i","c","h">>)>>), Lit(<<" ","d","a","t","e"," ">>), Alt(<<Lit(<<"d","o"," ","w","e"," ","h","a","v","e">>), Lit(<<"i","s"," ","i","t">>)>>)>>),
    \* r"date please"
    Lit(<<"d","a","t","e"," ","p","l","e","a","s","e">>),
    \* r"give me the date"
    Lit(<<"g","i","v","e"," ","m","e"," ","t","h","e"," ","d","a","t","e">>),
    \* r"today's date"
    Lit(<<"t","o","d","a","y","'","s"," ","d","a","t","e">>),
    \* r"(?:what|which) date"
    Cat(<<Alt(<<Lit(<<"w","h","a","t">>), Lit(<<"w","h","i","c","h">>)>>), Lit(<<" ","d","a","t","e">>)>>),
    \* r"date"
    Lit(<<"d","a","t","e">>)
    >>

DAY_PATTERNS == <<
    \* r"what day is (?:it|today)"
    Cat(<<Lit(<<"w","h","a","t"," ","d","a","y"," ","i","s"," ">>), Alt(<<Lit(<<"i","t">>), Lit(<<"t","o","d","a","y">>)>>)>>),
    \* r"which day is (?:it|today)"
    Cat(<<Lit(<<"w","h","i","c","h"," ","d","a","y"," ","i","s"," ">>), Alt(<<Lit(<<"i","t">>), Lit(<<"t","o","d","a","y">>)>>)>>),
    \* r"tell me the day"
    Lit(<<"t","e","l","l"," ","m","e"," ","t","h","e"," ","d","a","y">>),
    \* r"(?:can you )?tell me what day it is"
    Cat(<<Opt(Lit(<<"c","a","n"," ","y","o","u"," ">>)), Lit(<<"t","e","l","l"," ","m","e"," ","w","h","a","t"," ","d","a","y"," ","i","t"," ","i","s">>)>>),
    \* r"what day of the week is it"
    Lit(<<"w","h","a","t"," ","d","a","y"," ","o","f"," ","t","h","e"," ","w","e","e","k"," ","i","s"," ","i","t">>),
    \* r"is it (monday|tuesday|wednesday|thursday|friday|saturday|sunday)"
    Cat(<<Lit(<<"i","s"," ","i","t"," ">>), Alt(<<Lit(<<"m","o","n","d","a","y">>), Lit(<<"t","u","e","s","d","a","y">>), Lit(<<"w","e","d","n","e","s","d","a","y">>), Lit(<<"t","h","u","r","s","d","a","y">>), Lit(<<"f","r","i","d","a","y">>), Lit(<<"s","a","t","u","r","d","a","y">>), Lit(<<"s","u","n","d","a","y">>)>>)>>)
    >>

CALENDAR_PATTERNS == <<
    \* r"(?:read|tell) me this month's calendar"
    Cat(<<Alt(<<Lit(<<"r","e","a","d">>), Lit(<<"t","e","l","l">>)>>), Lit(<<" ","m","e"," ","t","h","i","s"," ","m","o","n","t","h","'","s"," ","c","a","l","e","n","d","a","r">>)>>),
    \* r"how many days (?:are )?(?:in|this) (?:this )?month"
    Cat(<<Lit(<<"h","o","w"," ","m","a","n","y"," ","d","a","y","s"," ">>), Opt(Lit(<<"a","r","e"," ">>)), Alt(<<Lit(<<"i","n">>), Lit(<<"t","h","i","s">>)>>), Lit(<<" ">>), Opt(Lit(<<"t","h","i","s"," ">>)), Lit(<<"m","o","n","t","h">>)>>),
    \* r"tell me about this month"
    Lit(<<"t","e","l","l"," ","m","e"," ","a","b","o","u","t"," ","t","h","i","s"," ","m","o","n","t","h">>),
    \* r"what month is it"
    Lit(<<"w","h","a","t"," ","m","o","n","t","h"," ","i","s"," ","i","t">>),
    \* r"give me (?:the )?month(?:'s)? details"
    Cat(<<Lit(<<"g","i","v","e"," ","m","e"," ">>), Opt(Lit(<<"t","h","e"," ">>)), Lit(<<"m","o","n","t","h">>), Opt(Lit(<<"'","s">>)), Lit(<<" ","d","e","t","a","i","l","s">>)>>),
    \* r"tell me about (?:the )?current month"
    Cat(<<Lit(<<"t","e","l","l"," ","m","e"," ","a","b","o","u","t"," ">>), Opt(Lit(<<"t","h","e"," ">>)), Lit(<<"c","u","r","r","e","n","t"," ","m","o","n","t","h">>)>>),
    \* r"how long is this month"
    Lit(<<"h","o","w"," ","l","o","n","g"," ","i","s"," ","t","h","i","s"," ","m","o","n","t","h">>)
    >>


detect_time_intent(text) ==
    \E k \in 1..Len(TIME_PATTERNS) : search(TIME_PATTERNS[k], lower(text))

detect_date_intent(text) ==
    \E k \in 1..Len(DATE_PATTERNS) : search(DATE_PATTERNS[k], lower(text))

detect_day_intent(text) ==
    \E k \in 1..Len(DAY_PATTERNS) : search(DAY_PATTERNS[k], lower(text))

detect_calendar_intent(text) ==
    \E k \in 1..Len(CALENDAR_PATTERNS) : search(CALENDAR_PATTERNS[k], lower(text))

(***************************************************************************)
(* The clock and the formatters of calendar_and_clock.py.  An instant      *)
(* `now` is [year, month, day, hour, minute]; a response is a pair         *)
(* [spoken, display] of texts, each text the sequence of its parts.  A     *)
(* display text is written without its pictographs and bullets, and with   *)
(* one space for each line break.                                          *)
(***************************************************************************)
WEEKDAYS == <<"Monday", "Tuesday", "Wednesday", "Thursday", "Friday",
              "Saturday", "Sunday">>

MONTHS == <<"January", "February", "March", "April", "May", "June", "July",
            "August", "September", "October", "November", "December">>

isleap(y) == y % 4 = 0 /\ (y % 100 # 0 \/ y % 400 = 0)

\* calendar.monthrange(y, m)[1]
days_in_month(y, m) ==
    IF m = 2 THEN (IF isleap(y) THEN 29 ELSE 28)
    ELSE IF m \in {4, 6, 9, 11} THEN 30 ELSE 31

RECURSIVE days_before_month(_, _)
days_before_month(y, m) ==
    IF m <= 1 THEN 0 ELSE days_before_month(y, m - 1) + days_in_month(y, m - 1)

\* date.toordinal(): the day number, 1 for 0001-01-01
toordinal(y, m, d) ==
    (y - 1) * 365 + ((y - 1) \div 4) - ((y - 1) \div 100) + ((y - 1) \div 400)
    + days_before_month(y, m) + d

\* date.weekday(): 0 for Monday
weekday(y, m, d) == (toordinal(y, m, d) + 6) % 7

\* strftime('%A') and strftime('%B')
day_name(now) == WEEKDAYS[weekday(now.year, now.month, now.day) + 1]

month_name(now) == MONTHS[now.month]

\* two digits with a leading zero, as %I and %M print
Pad2(n) == IF n < 10 THEN "0" \o ToString(n) ELSE ToString(n)

\* a variant of get_current_time whose afternoon begins after the hour 12
get_current_time_noon_am(now, raises) ==
    LET hour       == IF now.hour % 12 = 0 THEN 12 ELSE now.hour % 12
        minute     == now.minute
        meridian   == IF now.hour > 12 THEN "pm" ELSE "am"
        minute_str == IF minute = 0 THEN "o'clock"
                      ELSE IF minute < 10 THEN "oh " \o ToString(minute)
                      ELSE ToString(minute)
    IN  [spoken  |-> <<"It's ", ToString(hour), " ", minute_str, " ", meridian>>,
         display |-> <<Pad2(hour), ":", Pad2(minute), " ",
                       IF now.hour >= 12 THEN "PM" ELSE "AM">>]

get_current_time(now, raises) ==
    IF raises
    THEN [spoken  |-> <<"I'm having trouble reading the time right now.">>,
          display |-> <<"Error reading time">>]
    ELSE LET hour       == IF now.hour % 12 = 0 THEN 12 ELSE now.hour % 12
             minute     == now.minute
             meridian   == IF now.hour >= 12 THEN "pm" ELSE "am"
             minute_str == IF minute = 0 THEN "o'clock"
                           ELSE IF minute < 10 THEN "oh " \o ToString(minute)
                           ELSE ToString(minute)
         IN  [spoken  |-> <<"It's ", ToString(hour), " ", minute_str, " ", meridian>>,
              display |-> <<Pad2(hour), ":", Pad2(minute), " ",
                            IF now.hour >= 12 THEN "PM" ELSE "AM">>]

\* a variant of get_ordinal_suffix that knows one suffix only
get_ordinal_suffix_st(day) == ToString(day) \o "st"

\* a variant of get_ordinal_suffix without the rule for 10..20
get_ordinal_suffix_no_teens(day) ==
    LET suffix == IF day % 10 = 1 THEN "st"
                  ELSE IF day % 10 = 2 THEN "nd"
                  ELSE IF day % 10 = 3 THEN "rd"
                  ELSE "th"
    IN  ToString(day) \o suffix

get_ordinal_suffix(day) ==
    LET suffix == IF 10 <= day % 100 /\ day % 100 <= 20 THEN "th"
                  ELSE IF day % 10 = 1 THEN "st"
                  ELSE IF day % 10 = 2 THEN "nd"
                  ELSE IF day % 10 = 3 THEN "rd"
                  ELSE "th"
    IN  ToString(day) \o suffix

\* the faults of datetime.datetime.now(): "clock", every call raises;
\* "clock_once", the first call of a function raises and the next answers
ClockFaults == {"clock", "clock_once"}

\* When the call of line 131 raises, the handler of lines 159-169 asks the
\* clock again (line 164) and answers with the numbers of the date; it gives
\* up when that call raises too.
get_current_date(now, fault) ==
    IF fault = "clock"
    THEN [spoken  |-> <<"I'm having trouble reading today's date. Please try asking me again in a moment.">>,
          display |-> <<"Error reading date">>]
    ELSE IF fault = "clock_once"
    THEN LET basic_response == <<"Today is ", ToString(now.month), "/",
                                 ToString(now.day), "/", ToString(now.year)>>
         IN  [spoken |-> basic_response, display |-> basic_response]
    ELSE LET day_str == get_ordinal_suffix(now.day)
         IN  [spoken  |-> <<"Today is ", day_name(now), ", ", month_name(now), " ",
                            day_str, ", ", ToString(now.year)>>,
              display |-> <<day_name(now), ", ", month_name(now), " ",
                            ToString(now.day), ", ", ToString(now.year)>>]

get_current_day(now) ==
    [spoken  |-> <<"Today is ", day_name(now)>>,
     display |-> <<day_name(now)>>]

get_month_calendar(now) ==
    LET num_days  == days_in_month(now.year, now.month)
        start_day == WEEKDAYS[weekday(now.year, now.month, 1) + 1]
    IN  [spoken  |-> <<"We are in the month of ", month_name(now), ". ",
                       "This month has ", ToString(num_days), " days in total. ",
                       "The first day of ", month_name(now), " was a ", start_day, ". ",
                       "Today is day number ", ToString(now.day), " of the month.">>,
         display |-> <<month_name(now), " ", ToString(now.year),
                       " Days in month: ", ToString(num_days),
                       " Started on: ", start_day,
                       " Current day: ", ToString(now.day), " of ", ToString(num_days)>>]

\* the words of the keyword fallback, lines 237 and 240
DATE_WORDS == <<<<"d","a","t","e">>, <<"t","o","d","a","y">>, <<"d","a","y">>, <<"m","o","n","t","h">>>>

\* a variant of the time words without "clock"
TIME_WORDS_no_clock == <<<<"t","i","m","e">>, <<"h","o","u","r">>>>

TIME_WORDS == <<<<"t","i","m","e">>, <<"c","l","o","c","k">>, <<"h","o","u","r">>>>

\* the pair of the except branch at lines 244-247
IntentError ==
    [spoken  |-> <<"I'm having trouble getting that information right now. Please try asking in a simpler way.">>,
     display |-> <<"Error processing query">>]

\* process_time_query(text).  fault is "none", "intent" (a detect_*_intent
\* call raises) or one of ClockFaults (datetime.datetime.now() raises: only
\* get_current_date asks the clock a second time).  The result is
\* [intent, pair]; intent "None" stands for the return value None, and then
\* pair is the empty pair.
NoPair == [spoken |-> <<>>, display |-> <<>>]

\* a variant of process_time_query that tries the time templates before the
\* date templates
process_time_query_time_first(text, now, fault) ==
    LET t == strip(lower(text))
    IN  IF text = <<>>
        THEN [intent |-> "Empty",
              pair   |-> [spoken  |-> <<"I didn't quite catch that. Could you please repeat your question?">>,
                          display |-> <<"Could not understand the query">>]]
        ELSE IF fault = "intent" THEN [intent |-> "Error", pair |-> IntentError]
        ELSE IF detect_time_intent(t)
             THEN [intent |-> "Time", pair |-> get_current_time(now, fault \in ClockFaults)]
        ELSE IF detect_date_intent(t)
             THEN [intent |-> "Date", pair |-> get_current_date(now, fault)]
        ELSE IF detect_day_intent(t)
             THEN IF fault \in ClockFaults THEN [intent |-> "Error", pair |-> IntentError]
                  ELSE [intent |-> "Day", pair |-> get_current_day(now)]
        ELSE IF detect_calendar_intent(t)
             THEN IF fault \in ClockFaults THEN [intent |-> "Error", pair |-> IntentError]
                  ELSE [intent |-> "Calendar", pair |-> get_month_calendar(now)]
        ELSE IF \E k \in 1..Len(DATE_WORDS) : Contains(t, DATE_WORDS[k])
             THEN [intent |-> "Date", pair |-> get_current_date(now, fault)]
        ELSE IF \E k \in 1..Len(TIME_WORDS) : Contains(t, TIME_WORDS[k])
             THEN [intent |-> "Time", pair |-> get_current_time(now, fault \in ClockFaults)]
        ELSE [intent |-> "None", pair |-> NoPair]

process_time_query(text, now, fault) ==
    LET t == strip(lower(text))
    IN  IF text = <<>>
        THEN [intent |-> "Empty",
              pair   |-> [spoken  |-> <<"I didn't quite catch that. Could you please repeat your question?">>,
                          display |-> <<"Could not understand the query">>]]
        ELSE IF fault = "intent" THEN [intent |-> "Error", pair |-> IntentError]
        ELSE IF detect_date_intent(t)
             THEN [intent |-> "Date", pair |-> get_current_date(now, fault)]
        ELSE IF detect_time_intent(t)
             THEN [intent |-> "Time", pair |-> get_current_time(now, fault \in ClockFaults)]
        ELSE IF detect_day_intent(t)
             THEN IF fault \in ClockFaults THEN [intent |-> "Error", pair |-> IntentError]
                  ELSE [intent |-> "Day", pair |-> get_current_day(now)]
        ELSE IF detect_calendar_intent(t)
             THEN IF fault \in ClockFaults THEN [intent |-> "Error", pair |-> IntentError]
                  ELSE [intent |-> "Calendar", pair |-> get_month_calendar(now)]
        ELSE IF \E k \in 1..Len(DATE_WORDS) : Contains(t, DATE_WORDS[k])
             THEN [intent |-> "Date", pair |-> get_current_date(now, fault)]
        ELSE IF \E k \in 1..Len(TIME_WORDS) : Contains(t, TIME_WORDS[k])
             THEN [intent |-> "Time", pair |-> get_current_time(now, fault \in ClockFaults)]
        ELSE [intent |-> "None", pair |-> NoPair]

(***************************************************************************)
(* What the model draws the environment from                               *)
(***************************************************************************)
\* names of installed voices
VOICE_DAVID == <<"M","i","c","r","o","s","o","f","t"," ","D","a","v","i","d"," ","D","e","s","k","t","o","p">>

VOICE_ZIRA == <<"M","i","c","r","o","s","o","f","t"," ","Z","i","r","a"," ","D","e","s","k","t","o","p">>

VOICE_OTHER == <<"E","n","g","l","i","s","h"," ","(","A","m","e","r","i","c","a",")">>

\* the transcripts the recognizer may return
UtteranceList == <<
    <<"H","e","y",","," ","S","a","t","h","i","!">>,
    <<"s","a","t","h","i">>,
    <<"\f","s","a","t","y","\\xa0">>,
    <<"n","o">>,
    <<"y","e","s">>,
    <<"y","e","s"," ","p","l","e","a","s","e">>,
    <<"W","h","a","t","'","s"," ","t","h","e"," ","d","a","t","e"," ","t","o","d","a","y","?">>,
    <<"w","h","a","t"," ","t","i","m","e"," ","i","s"," ","i","t">>,
    <<"y","a","r","d">>,
    <<"n","o","t"," ","r","i","g","h","t">>,
    <<"s","a","t","h","i"," ","h","e","y">>,
    <<"w","h","a","t"," ","d","a","y"," ","i","s"," ","i","t">>,
    <<"t","e","l","l"," ","m","e"," ","a","b","o","u","t"," ","t","h","i","s"," ","m","o","n","t","h">>
    >>

\* how many of them the model draws from: all
MaxUtterances == 13

Utterances ==
    {UtteranceList[i] : i \in 1..(IF MaxUtterances < Len(UtteranceList)
                                  THEN MaxUtterances ELSE Len(UtteranceList))}

\* what the recognizer may return in the wake loop: the same, and each of
\* the configured wake phrases as it is written
WakeUtterances == Utterances \cup {WAKE_WORDS[i] : i \in 1..Len(WAKE_WORDS)}

Captures == {"ok", "mkdir_error", "rec_error", "write_error"}

Whispers == {"missing", "failed", "empty", "text"}

Faults == {"none", "intent", "clock", "clock_once"}

LLMs == {"ok", "raise"}

Instants == {[year |-> 2024, month |-> 2, day |-> 29, hour |-> 0, minute |-> 5],
             [year |-> 2026, month |-> 10, day |-> 30, hour |-> 17, minute |-> 45]}

TTSs == [voices : {<<>>, <<VOICE_ZIRA>>, <<VOICE_OTHER, VOICE_DAVID>>},
         speak_error : BOOLEAN, save_error : BOOLEAN]

NoTTS == [voices |-> <<>>, speak_error |-> FALSE, save_error |-> FALSE]

(***************************************************************************)
(* The external collaborators, as functions of what the environment does   *)
(***************************************************************************)
\* voice_input.record_audio: the path of the recording, or "None", or
\* "raise" when the call is left by an exception.  capture is "ok",
\* "mkdir_error" (the directory of the file is missing and os.makedirs
\* raises, lines 18-20, before the first try), "rec_error" (sd.rec or
\* sd.wait raises, Ctrl-C included) or "write_error" (saving the file raises).
record_audio(filename, capture) ==
    IF capture = "ok" THEN filename
    ELSE IF capture = "mkdir_error" THEN "raise"
    ELSE "None"

\* voice_input.transcribe_audio: the transcript, never empty, or None, which
\* is <<>> here.  whisper is "missing" (executable or model not found),
\* "failed" (non-zero return code, timeout or another exception), "empty"
\* (no text in the output) or "text" (the output holds `text`).  With
\* audio_path None, subprocess.run raises TypeError inside the try.
transcribe_audio(audio_path, whisper, text) ==
    IF whisper = "missing" THEN <<>>
    ELSE IF audio_path = "None" THEN <<>>
    ELSE IF whisper = "text" THEN strip(text)
    ELSE <<>>

\* llm_gemma.query_gemma: generate_content or response.text may raise
query_gemma(prompt, llm) ==
    IF llm = "raise" THEN [raised |-> TRUE, text |-> <<>>]
    ELSE [raised |-> FALSE, text |-> <<"(reply of the model)">>]

\* the voice the loops of tts_output.py select: the index of the first voice
\* whose lowered name fits the preference, 0 when there is none
select_voice(voices, use_male_voice) ==
    LET fits(v) == IF use_male_voice
                   THEN Contains(lower(v), <<"d","a","v","i","d">>)
                        \/ Contains(lower(v), <<"m","a","l","e">>)
                   ELSE Contains(lower(v), <<"z","i","r","a">>)
                        \/ Contains(lower(v), <<"f","e","m","a","l","e">>)
        S == {i \in 1..Len(voices) : fits(voices[i])}
    IN  IF S = {} THEN 0 ELSE CHOOSE i \in S : \A j \in S : i <= j

\* the selection, tabulated over the sets of installed voices of the model
SelectedVoice ==
    [voices \in {t.voices : t \in TTSs}, use_male_voice \in BOOLEAN |->
        select_voice(voices, use_male_voice)]

\* a variant of speak_text that gives up when no voice fits the preference
speak_text_no_fallback(text, use_male_voice, tts) ==
    IF text = <<>> THEN [result |-> "None", voice |-> 0]
    ELSE IF tts.voices = <<>> THEN [result |-> "None", voice |-> 0]
    ELSE IF tts.speak_error THEN [result |-> "False", voice |-> 0]
    ELSE LET selected == SelectedVoice[tts.voices, use_male_voice]
         IN  IF selected # 0 THEN [result |-> "True", voice |-> selected]
             ELSE [result |-> "False", voice |-> 0]

\* tts_output.speak_text.  tts is [voices, speak_error, save_error]: the
\* installed voices, and whether the engine raises while speaking or saving.
\* The result is "True", "False" or "None"; voice is the index of the voice
\* used, 0 when nothing was spoken.
speak_text(text, use_male_voice, tts) ==
    IF text = <<>> THEN [result |-> "None", voice |-> 0]
    ELSE IF tts.voices = <<>> THEN [result |-> "None", voice |-> 0]
    ELSE IF tts.speak_error THEN [result |-> "False", voice |-> 0]
    ELSE LET selected == SelectedVoice[tts.voices, use_male_voice]
         IN  [result |-> "True", voice |-> IF selected # 0 THEN selected ELSE 1]

\* tts_output.text_to_speech: the path of the saved file ("file") or "None"
text_to_speech(text, use_male_voice, tts) ==
    IF tts.save_error THEN [result |-> "None", voice |-> 0]
    ELSE LET selected == SelectedVoice[tts.voices, use_male_voice]
         IN  [result |-> "file",
              voice  |-> IF selected # 0 THEN selected
                         ELSE IF tts.voices # <<>> THEN 1 ELSE 0]

\* Python's truth value of a result
Truthy(result) == result \in {"True", "file"}

\* one call of a synthesis function, as it appears in the output of a step
Event(fn, kind, text, r) ==
    [fn |-> fn, kind |-> kind, text |-> text, result |-> r.result, voice |-> r.voice]

(***************************************************************************)
(* main.py                                                                 *)
(***************************************************************************)
SATHI_GREETINGS == <<
    "Hello! I'm Sathi, your helpful companion. How may I assist you?",
    "Good day! I'm here to help you. What can I do for you?",
    "Hello dear! I'm Sathi, ready to assist you.",
    "I'm here to help! Please tell me what you need.",
    "Yes, I'm listening! How can I make your day better?",
    "I'm your assistant Sathi. Please let me know how I can help you."
    >>

\* variants of the cutoff: a stricter and a laxer wake loop
wake_threshold_high == Frac(95, 100)

wake_threshold_low == Frac(50, 100)

\* line 194: the cutoff of the wake loop
wake_threshold == Frac(70, 100)

\* lines 215 and 227: the cutoffs of the second scoring block
accept_threshold == Frac(9, 10)

confirm_threshold == Frac(55, 100)

\* line 240: the words the confirmation dialogue looks for
AFFIRMATIVE == {
    <<"y","e","s">>,
    <<"y","e","a","h">>,
    <<"y","u","p">>,
    <<"y","a">>,
    <<"c","o","r","r","e","c","t">>,
    <<"r","i","g","h","t">>
    }

\* what one pass of a loop did: the transcript it worked on (<<>> for none),
\* the calls of the synthesis functions in order, the number of calls of
\* query_gemma, the intent process_time_query found, whether an exception
\* left the function, and the text printed after "Sathi: " (<<>> for none)
Outcome(input, heard, intent, out, llm_calls, raised) ==
    [input |-> input, heard |-> heard, intent |-> intent, out |-> out,
     llm_calls |-> llm_calls, raised |-> raised, shown |-> <<>>]

\* lines 138, 161 and 197: the outcome of a pass that printed `text`
Showing(o, text) == [o EXCEPT !.shown = text]

(***************************************************************************)
(* The program: sathi_assistant().  The wake loop (lines 178-204) is state *)
(* Idle, the conversation loop (lines 261-264) is state Conversing.  Every *)
(* pass of the wake loop ends in the break of line 200 or the continue of  *)
(* line 204, so lines 206-258, the second scoring block with the           *)
(* confirmation dialogue, are never executed and no pass is in the state   *)
(* AwaitingConfirmation.                                                   *)
(***************************************************************************)
VARIABLES
    state,      \* "Idle", "AwaitingConfirmation" or "Conversing"
    running,    \* TRUE while sathi_assistant has not been left by an exception
    last,       \* the last pass of a loop: the state it started in and what it did
    scorer,     \* one call of the scorer: its arguments and, once made, its result
    query,      \* one call of process_time_query: its arguments and its result
    format,     \* one call of a formatter of the clock: its arguments and its result
    speech,     \* one call of a synthesis function: its arguments and its result
    store,      \* the rows of the table `tasks`, row i has id i
    op,         \* the last operation on the table, and what it did
    sched,      \* the thread of start_scheduler and the check it is making
    ask         \* the loop of ask_loop.py: its locals and its last pass

vars == <<state, running, last, scorer, query, format, speech, store, op, sched, ask>>

\* the assistant, the single calls, and the reminders
coreVars == <<state, running, last>>

callVars == <<scorer, query, format, speech>>

taskVars == <<store, op, sched>>

\* What the environment does during one pass of the wake loop.  The inputs
\* a pass does not read are fixed: a pass whose capture or transcription
\* fails reads nothing else.
WakeInputs ==
    [capture : Captures \ {"ok"}, whisper : {"text"}, text : {UtteranceList[1]},
     tts : {NoTTS}, greeting : {1}]
    \cup
    [capture : {"ok"}, whisper : Whispers \ {"text"}, text : {UtteranceList[1]},
     tts : {NoTTS}, greeting : {1}]
    \cup
    [capture : {"ok"}, whisper : {"text"}, text : WakeUtterances,
     tts : TTSs, greeting : 1..Len(SATHI_GREETINGS)]

\* What the environment does during one turn of the conversation.  A turn
\* reads the clock only when it answers itself and the responder only when
\* it does not, so a failing responder is combined with one clock only.
ConverseInputs ==
    [capture : Captures \ {"ok"}, whisper : {"text"}, text : {UtteranceList[1]},
     now : {CHOOSE n \in Instants : TRUE}, fault : {"none"}, llm : {"ok"},
     tts : {NoTTS}]
    \cup
    [capture : {"ok"}, whisper : Whispers \ {"text"}, text : {UtteranceList[1]},
     now : {CHOOSE n \in Instants : TRUE}, fault : {"none"}, llm : {"ok"},
     tts : {NoTTS}]
    \cup
    [capture : {"ok"}, whisper : {"text"}, text : Utterances,
     now : Instants, fault : Faults, llm : {"ok"}, tts : TTSs]
    \cup
    [capture : {"ok"}, whisper : {"text"}, text : Utterances,
     now : {CHOOSE n \in Instants : TRUE}, fault : {"none"}, llm : LLMs \ {"ok"},
     tts : TTSs]

\* The calls is_wake_word(norm_trans) of line 191 and
\* process_time_query(transcription) of line 135, tabulated over the
\* transcripts and the clock and fault inputs of the model: each is computed
\* once, by the definitions above.
WakeScores == [t \in {strip(u) : u \in WakeUtterances} |-> is_wake_word(t)]

TimeQueries ==
    [t \in {strip(u) : u \in Utterances}, n \in Instants, f \in Faults |->
        process_time_query(t, n, f)]

\* a variant of speak_time_response without the backup of lines 144-146
speak_time_response_no_backup(pair, tts) ==
    IF pair.spoken # <<>>
    THEN <<Event("speak_text", "response", pair.spoken,
                 speak_text(pair.spoken, TRUE, tts))>>
    ELSE LET sorry == <<"I'm having trouble telling the time right now.">>
         IN  <<Event("speak_text", "response", sorry, speak_text(sorry, TRUE, tts))>>

\* lines 133-152: the branch taken when process_time_query returns a pair
speak_time_response(pair, tts) ==
    IF pair.spoken # <<>>
    THEN LET p == speak_text(pair.spoken, TRUE, tts)
         IN  IF ~Truthy(p.result)
             THEN <<Event("speak_text", "response", pair.spoken, p),
                    Event("text_to_speech", "response", pair.spoken,
                          text_to_speech(pair.spoken, TRUE, tts))>>
             ELSE <<Event("speak_text", "response", pair.spoken, p)>>
    ELSE LET sorry == <<"I'm having trouble telling the time right now.">>
         IN  <<Event("speak_text", "response", sorry, speak_text(sorry, TRUE, tts))>>

\* lines 157-168 with the outcome of the block
ask_llm(transcription, answer) ==
    Showing(Outcome("text", transcription, "None", answer.out, answer.llm_calls,
                    answer.raised),
            answer.shown)

\* lines 157-168: the branch taken when process_time_query returns None.
\* raised: an exception leaves the block; the except clause at line 162
\* catches what query_gemma raises, and the synthesis functions raise nothing.
speak_llm_response(transcription, llm, tts) ==
    LET r == query_gemma(transcription, llm)
    IN  IF r.raised
        THEN [out |-> <<>>, llm_calls |-> 1, raised |-> FALSE, shown |-> <<>>]
        ELSE [out |-> <<Event("speak_text", "response", r.text,
                              speak_text(r.text, TRUE, tts)),
                        Event("text_to_speech", "response", r.text,
                              text_to_speech(r.text, TRUE, tts))>>,
              llm_calls |-> 1, raised |-> FALSE, shown |-> r.text]

\* a variant of answer_transcription that asks the responder about time
\* queries too
answer_transcription_asks_too(transcription, time_response, llm, tts) ==
    IF time_response.intent # "None"
    THEN Showing(Outcome("text", transcription, time_response.intent,
                         speak_time_response(time_response.pair, tts),
                         speak_llm_response(transcription, llm, tts).llm_calls,
                         FALSE),
                 time_response.pair.display)
    ELSE ask_llm(transcription, speak_llm_response(transcription, llm, tts))

\* lines 131-168, for the answer of process_time_query.  The except clause
\* of line 153 is not modelled: process_time_query catches every exception
\* itself, so nothing reaches it.
answer_transcription(transcription, time_response, llm, tts) ==
    IF time_response.intent # "None"
    THEN Showing(Outcome("text", transcription, time_response.intent,
                         speak_time_response(time_response.pair, tts), 0, FALSE),
                 time_response.pair.display)
    ELSE ask_llm(transcription, speak_llm_response(transcription, llm, tts))

\* sathi_interaction(): one turn of the conversation.  Line 118 calls
\* record_audio outside every try, so what record_audio raises leaves the
\* turn, and with it the loop of lines 261-264.
sathi_interaction(capture, whisper, text, now, fault, llm, tts) ==
    LET audio_path    == record_audio("data/audio/audio.wav", capture)
        transcription == transcribe_audio(audio_path, whisper, text)
    IN  IF audio_path = "raise"
        THEN Outcome("capture_raised", <<>>, "None", <<>>, 0, TRUE)
        ELSE IF audio_path = "None"
        THEN Outcome("capture_failed", <<>>, "None", <<>>, 0, FALSE)
        ELSE IF transcription = <<>>
        THEN Outcome("no_transcript", <<>>, "None", <<>>, 0, FALSE)
        ELSE answer_transcription(transcription,
                                  TimeQueries[transcription, now, fault], llm, tts)

\* lines 186-204, for the score of the transcript.  greeting is the index
\* random.choice picks.
wake_decide(transcription, score, greeting, tts) ==
    IF Geq(score, wake_threshold)
    THEN [o |-> Showing(Outcome("text", transcription, "None",
                        <<Event("speak_text", "greeting",
                                <<SATHI_GREETINGS[greeting]>>,
                                speak_text(<<SATHI_GREETINGS[greeting]>>, TRUE, tts)),
                          Event("text_to_speech", "greeting",
                                <<SATHI_GREETINGS[greeting]>>,
                                text_to_speech(<<SATHI_GREETINGS[greeting]>>, TRUE, tts))>>,
                        0, FALSE),
                        <<SATHI_GREETINGS[greeting]>>),
          score |-> score, scored |-> TRUE, woke |-> TRUE]
    ELSE [o |-> Outcome("text", transcription, "None", <<>>, 0, FALSE),
          score |-> score, scored |-> TRUE, woke |-> FALSE]

\* lines 179-204: one pass of the wake loop.  The result is the outcome, the
\* score, and whether the loop was left by the break.  What record_audio
\* raises at line 179 leaves the loop and sathi_assistant.
wake_listen(capture, whisper, text, greeting, tts) ==
    LET audio_path    == record_audio("data/audio/listen.wav", capture)
        transcription == transcribe_audio(audio_path, whisper, text)
    IN  IF audio_path = "raise"
        THEN [o |-> Outcome("capture_raised", <<>>, "None", <<>>, 0, TRUE),
              score |-> <<0, 1>>, scored |-> FALSE, woke |-> FALSE]
        ELSE IF transcription = <<>>
        THEN [o |-> Outcome(IF audio_path = "None" THEN "capture_failed"
                            ELSE "no_transcript", <<>>, "None", <<>>, 0, FALSE),
              score |-> <<0, 1>>, scored |-> FALSE, woke |-> FALSE]
        ELSE wake_decide(transcription, WakeScores[strip(transcription)],
                         greeting, tts)

NoOutcome == Outcome("start", <<>>, "None", <<>>, 0, FALSE)

\* the locals of is_wake_word when no call is in progress
NoFrame == [arg |-> <<>>, norm |-> <<>>, tokens |-> <<>>, best_score |-> <<0, 1>>,
            k |-> 0]

NoCall == [input |-> <<>>, phrases |-> <<>>, text |-> <<>>, score |-> <<0, 1>>,
           done |-> FALSE, calls |-> 0, returned |-> <<>>, at |-> "out",
           frame |-> NoFrame]

NoQuery == [text |-> <<>>, now |-> CHOOSE n \in Instants : TRUE, fault |-> "none",
            done |-> FALSE, intent |-> "None", pair |-> NoPair]

\* `last` before any pass.  Besides what the pass did, `last` keeps what the
\* clock and the responder were like during the pass.
NoPass == [mode |-> "Start", o |-> NoOutcome, score |-> <<0, 1>>, scored |-> FALSE,
           now |-> CHOOSE n \in Instants : TRUE, fault |-> "none", llm |-> "ok"]

\* before a formatter, a synthesis function or an operation on the table
\* is called
NoFormat == [fn |-> "none", day |-> 1, hour |-> 0, minute |-> 0, done |-> FALSE,
             ordinal |-> "", spoken |-> <<>>, display |-> <<>>]

NoSpeech == [fn |-> "none", text |-> <<>>, use_male_voice |-> FALSE, tts |-> NoTTS,
             done |-> FALSE, result |-> "None", voice |-> 0]

\* ask_loop.py: the value None of last_question, a pass of the loop that
\* did nothing, and the program before main() is called
NoQuestion == <<"None">>

NoAskPass == [changed |-> FALSE, mtime |-> 0, transcriptions |-> 0,
              transcript |-> <<>>, asked |-> NoQuestion, spoken |-> <<>>,
              error |-> "none"]

NoAsk == [at |-> "line 96", file |-> 0, last_mtime |-> 0,
          last_question |-> NoQuestion, running |-> FALSE, raised |-> "none",
          asked_before |-> NoQuestion, pass |-> NoAskPass]

NoOp == [name |-> "none", id |-> 0, time |-> <<>>, result |-> "None", deleted |-> {}]

\* The scheduler before start_scheduler is called.  started: the thread
\* runs; now, fault: the clock and what failed when the last check began;
\* due: the ids of the tasks that check set out to announce; todo: those of
\* them the loop of lines 55-59 has not reached yet; announced, heard: the
\* ids announce_task was called on, and those whose reminder was spoken.
NoSched == [started |-> FALSE, now |-> <<>>, fault |-> "none", due |-> <<>>,
            todo |-> <<>>, announced |-> <<>>, heard |-> <<>>]

Init ==
    /\ state = "Idle"
    /\ running = TRUE
    /\ last = NoPass
    /\ scorer = NoCall
    /\ query = NoQuery
    /\ format = NoFormat
    /\ speech = NoSpeech
    /\ store = <<>>
    /\ op = NoOp
    /\ sched = NoSched
    /\ ask = NoAsk

\* lines 261-264: `while True` without a break, so whatever the turn did the
\* next pass is another turn
conversation_loop(o) == "Conversing"

\* one pass of the wake loop, lines 178-204, the environment acting as one
\* of `inputs`
WakePass(inputs) ==
    /\ running
    /\ state = "Idle"
    /\ \E in \in inputs :
         LET r == wake_listen(in.capture, in.whisper, in.text, in.greeting, in.tts)
         IN  /\ state' = IF r.woke THEN "Conversing" ELSE "Idle"
             /\ running' = ~r.o.raised
             /\ last' = [NoPass EXCEPT !.mode = "Idle", !.o = r.o,
                                       !.score = r.score, !.scored = r.scored]
             /\ UNCHANGED <<callVars, taskVars, ask>>

WakeStep == WakePass(WakeInputs)

\* one pass of the conversation loop, lines 261-264, the environment acting
\* as one of `inputs`
ConversePass(inputs) ==
    /\ running
    /\ state = "Conversing"
    /\ \E in \in inputs :
         LET o == sathi_interaction(in.capture, in.whisper, in.text, in.now,
                                    in.fault, in.llm, in.tts)
         IN  /\ state' = conversation_loop(o)
             /\ running' = ~o.raised
             /\ last' = [NoPass EXCEPT !.mode = "Conversing", !.o = o,
                                       !.now = in.now, !.fault = in.fault,
                                       !.llm = in.llm]
             /\ UNCHANGED <<callVars, taskVars, ask>>

ConverseStep == ConversePass(ConverseInputs)

Next == WakeStep \/ ConverseStep

Spec == Init /\ [][Next]_vars

(***************************************************************************)
(* The scorer alone: is_wake_word applied to one text, with the list of    *)
(* wake phrases as an argument.                                            *)
(***************************************************************************)
\* the words the texts are made of, as a recognizer may write them
ScorerVocab == {
    <<"s","a","t","h","i">>,
    <<"H","e","y",",">>,
    <<"s","a","t","i">>,
    <<"p","l","e","a","s","e">>,
    <<"n","o">>,
    <<"h","e","y">>
    }

\* the longest text, in words
MaxTokens == 2

\* texts that are not words joined by single spaces
ScorerExtra == {
    <<" "," ","H","E","Y",".",".","."," "," ","S","a","t","h","i","!","\t">>,
    <<"!","!","!">>,
    <<" ">>,
    <<"s","a","t","h","y">>,
    <<"s","a","y"," ","h","i"," ","s","a","t","h","i">>,
    <<"s","a","t","h","i","s">>,
    <<"n","o","?","!">>,
    <<"h","e","y","\\x0b","s","a","t","h","\\u0130">>,
    <<"S","A","T","H","\\xc9">>
    }

\* the configured list, each of its phrases alone, no phrase, a phrase
\* that is empty once normalized, and a phrase written with capitals and
\* punctuation
PhraseLists ==
    {WAKE_WORDS, <<>>, << <<"?", "!">> >>, << <<"H","e","y",","," ","S","a","t","h","i","!">> >>}
    \cup {<<WAKE_WORDS[i]>> : i \in 1..Len(WAKE_WORDS)}

\* every phrase of the lists, normalized
PhraseTexts ==
    UNION {{NormWake(l[i]) : i \in 1..Len(l)} : l \in PhraseLists}

ScorerTexts ==
    {join(ws) : ws \in UNION {[1..k -> ScorerVocab] : k \in 0..MaxTokens}}
    \cup ScorerExtra \cup PhraseTexts

\* the number of calls of a run
MaxCalls == 3

\* a text scored between two calls on the text under study
ScorerOthers == {<<"s","a","t","i">>}

\* `input` is the text under study and `phrases` the module-level list;
\* `text`, `score` and `done` are the argument and the result of the call
\* that returned last, `returned` the pairs <<text, score>> of all the
\* calls that returned, in order; `at` and `frame` are the position and the
\* locals of the call in progress.
ScorerInit ==
    /\ state = "Idle"
    /\ running = TRUE
    /\ last = NoPass
    /\ scorer \in [input : ScorerTexts, phrases : PhraseLists, text : {<<>>},
                   score : {<<0, 1>>}, done : {FALSE}, calls : {0},
                   returned : {<<>>}, at : {"out"}, frame : {NoFrame}]
    /\ query = NoQuery
    /\ format = NoFormat
    /\ speech = NoSpeech
    /\ store = <<>>
    /\ op = NoOp
    /\ sched = NoSched
    /\ ask = NoAsk

\* a return of the call on `text` with the score r (lines 61, 78, 82, 88,
\* 98, 107, 109): the locals are gone
Returned(sc, text, r) ==
    [sc EXCEPT !.text = text, !.score = r, !.done = TRUE, !.calls = sc.calls + 1,
               !.returned = Append(sc.returned, <<text, r>>),
               !.at = "out", !.frame = NoFrame]

\* a variant of Frame in which best_score is not a local set to 0.0 at
\* line 68 but starts from the score returned last
Frame_keeps_score(sc, text, norm) ==
    [arg |-> text, norm |-> norm, tokens |-> split(norm), best_score |-> sc.score,
     k |-> 1]

\* lines 64-68: the locals at the head of the loop over the wake phrases
Frame(sc, text, norm) ==
    [arg |-> text, norm |-> norm, tokens |-> split(norm), best_score |-> <<0, 1>>,
     k |-> 1]

\* lines 60-68: the call is_wake_word(text)
Entered(sc, text) ==
    IF text = <<>> THEN Returned(sc, text, <<0, 1>>)
    ELSE [sc EXCEPT !.at = "line 70", !.frame = Frame(sc, text, NormText(text))]

\* lines 70-107 for one wake phrase, r the outcome of the iteration: a
\* return, or the next phrase with the best score so far
Iterated(sc, r) ==
    IF r.ret THEN Returned(sc, sc.frame.arg, r.val)
    ELSE [sc EXCEPT !.frame.best_score = r.val, !.frame.k = sc.frame.k + 1]

\* a call begins, on the text under study or on another
CallScorer ==
    /\ scorer.at = "out"
    /\ scorer.calls < MaxCalls
    /\ \E text \in {scorer.input} \cup ScorerOthers :
           scorer' = Entered(scorer, text)
    /\ UNCHANGED <<coreVars, query, format, speech, taskVars, ask>>

\* one iteration of the loop of line 70
ScorePhrase ==
    /\ scorer.at = "line 70"
    /\ scorer.frame.k <= Len(scorer.phrases)
    /\ scorer' = Iterated(scorer,
                     WakeIteration(scorer.frame.norm, scorer.frame.tokens,
                                   scorer.phrases[scorer.frame.k],
                                   scorer.frame.best_score))
    /\ UNCHANGED <<coreVars, query, format, speech, taskVars, ask>>

\* line 109: the loop is over
ReturnBest ==
    /\ scorer.at = "line 70"
    /\ scorer.frame.k > Len(scorer.phrases)
    /\ scorer' = Returned(scorer, scorer.frame.arg, scorer.frame.best_score)
    /\ UNCHANGED <<coreVars, query, format, speech, taskVars, ask>>

ScorerNext == CallScorer \/ ScorePhrase \/ ReturnBest

ScorerSpec == ScorerInit /\ [][ScorerNext]_vars

(***************************************************************************)
(* process_time_query alone: one call on one text, at one instant.         *)
(***************************************************************************)
\* the pieces the texts are made of
QueryFragments == {
    <<"w","h","a","t"," ","t","i","m","e"," ","i","s"," ","i","t">>,
    <<"d","a","t","e">>,
    <<"W","h","a","t"," ","d","a","y"," ","i","s"," ","i","t">>,
    <<"t","e","l","l"," ","m","e"," ","a","b","o","u","t"," ","t","h","i","s"," ","m","o","n","t","h">>,
    <<"t","o","d","a","y">>,
    <<"c","l","o","c","k">>,
    <<"h","e","l","l","o">>,
    <<"a","n","d"," ","t","h","e"," ","h","o","u","r">>
    }

\* the longest text, in pieces
MaxFragments == 2

\* texts that are not pieces joined by single spaces
QueryExtra == {
    <<"w","h","a","t"," ","d","a","t","e"," ","a","n","d"," ","t","i","m","e"," ","i","s"," ","i","t">>,
    <<"w","h","a","t","'","s"," ","t","h","e"," ","d","a","t","e"," ","t","o","d","a","y">>,
    <<" "," ">>,
    <<"I","s"," ","i","t"," ","F","r","i","d","a","y","?">>,
    <<"H","O","W"," ","L","O","N","G"," ","I","S"," ","T","H","I","S"," ","M","O","N","T","H">>,
    <<"h","o","w"," ","a","r","e"," ","y","o","u">>,
    <<"m","o","n","t","h","l","y">>,
    <<"s","o","m","e","t","i","m","e","s">>
    }

QueryTexts ==
    {join(fs) : fs \in UNION {[1..k -> QueryFragments] : k \in 0..MaxFragments}}
    \cup QueryExtra

\* the instants of the calls: days with each ordinal suffix, both meridians
QueryInstants == Instants \cup {
    [year |-> 2025, month |-> 3, day |-> 1, hour |-> 12, minute |-> 0],
    [year |-> 2025, month |-> 6, day |-> 22, hour |-> 23, minute |-> 59],
    [year |-> 2023, month |-> 12, day |-> 3, hour |-> 11, minute |-> 9],
    [year |-> 2027, month |-> 1, day |-> 11, hour |-> 13, minute |-> 10]}

\* a failing clock or a failing template search is combined with one instant
QueryInit ==
    /\ state = "Idle"
    /\ running = TRUE
    /\ last = NoPass
    /\ scorer = NoCall
    /\ query \in [text : QueryTexts, now : QueryInstants, fault : {"none"},
                  done : {FALSE}, intent : {"None"}, pair : {NoPair}]
                 \cup
                 [text : QueryTexts, now : {CHOOSE n \in Instants : TRUE},
                  fault : Faults \ {"none"},
                  done : {FALSE}, intent : {"None"}, pair : {NoPair}]
    /\ format = NoFormat
    /\ speech = NoSpeech
    /\ store = <<>>
    /\ op = NoOp
    /\ sched = NoSched
    /\ ask = NoAsk

\* the record of the call after it returned r
Answered(q, r) == [q EXCEPT !.done = TRUE, !.intent = r.intent, !.pair = r.pair]

\* the call
ProcessQuery ==
    /\ ~query.done
    /\ query' = Answered(query, process_time_query(query.text, query.now, query.fault))
    /\ UNCHANGED <<coreVars, scorer, format, speech, taskVars, ask>>

QueryNext == ProcessQuery

QuerySpec == QueryInit /\ [][QueryNext]_vars

(***************************************************************************)
(* The formatters of calendar_and_clock.py on their own: one call of       *)
(* get_ordinal_suffix on a day number, or one call of get_current_time at  *)
(* an hour and a minute of the clock.                                      *)
(***************************************************************************)
\* the largest day number a call is made on
MaxDay == 112

\* datetime.now() at the hour and the minute
ClockAt(hour, minute) ==
    [year |-> 2026, month |-> 10, day |-> 30, hour |-> hour, minute |-> minute]

FormatInit ==
    /\ state = "Idle"
    /\ running = TRUE
    /\ last = NoPass
    /\ scorer = NoCall
    /\ query = NoQuery
    /\ format \in [fn : {"get_ordinal_suffix"}, day : 1..MaxDay, hour : {0},
                   minute : {0}, done : {FALSE}, ordinal : {""},
                   spoken : {<<>>}, display : {<<>>}]
                  \cup
                  [fn : {"get_current_time"}, day : {1}, hour : 0..23,
                   minute : 0..59, done : {FALSE}, ordinal : {""},
                   spoken : {<<>>}, display : {<<>>}]
    /\ speech = NoSpeech
    /\ store = <<>>
    /\ op = NoOp
    /\ sched = NoSched
    /\ ask = NoAsk

\* the call of get_ordinal_suffix
OrdinalSuffix ==
    /\ format.fn = "get_ordinal_suffix"
    /\ ~format.done
    /\ format' = [format EXCEPT !.done = TRUE,
                                !.ordinal = get_ordinal_suffix(format.day)]
    /\ UNCHANGED <<coreVars, scorer, query, speech, taskVars, ask>>

\* the record of the call of get_current_time after it returned r
Told(f, r) == [f EXCEPT !.done = TRUE, !.spoken = r.spoken, !.display = r.display]

\* the call of get_current_time, with a clock that works
CurrentTime ==
    /\ format.fn = "get_current_time"
    /\ ~format.done
    /\ format' = Told(format, get_current_time(ClockAt(format.hour, format.minute), FALSE))
    /\ UNCHANGED <<coreVars, scorer, query, speech, taskVars, ask>>

FormatNext == OrdinalSuffix \/ CurrentTime

FormatSpec == FormatInit /\ [][FormatNext]_vars

(***************************************************************************)
(* The synthesis functions of tts_output.py on their own: one call of      *)
(* speak_text or of text_to_speech on a text, for a preferred profile and  *)
(* a set of installed voices.                                              *)
(***************************************************************************)
SpeechTexts == {<<>>, <<"Hello! How can I help you today?">>,
                <<"It's ", "12", " ", "oh 5", " ", "pm">>}

SpeechInit ==
    /\ state = "Idle"
    /\ running = TRUE
    /\ last = NoPass
    /\ scorer = NoCall
    /\ query = NoQuery
    /\ format = NoFormat
    /\ speech \in [fn : {"speak_text", "text_to_speech"}, text : SpeechTexts,
                   use_male_voice : BOOLEAN, tts : TTSs, done : {FALSE},
                   result : {"None"}, voice : {0}]
    /\ store = <<>>
    /\ op = NoOp
    /\ sched = NoSched
    /\ ask = NoAsk

\* the record of the call after it returned r
Synthesized(sp, r) == [sp EXCEPT !.done = TRUE, !.result = r.result, !.voice = r.voice]

\* the call of speak_text
SpeakText ==
    /\ speech.fn = "speak_text"
    /\ ~speech.done
    /\ speech' = Synthesized(speech, speak_text(speech.text, speech.use_male_voice,
                                                speech.tts))
    /\ UNCHANGED <<coreVars, scorer, query, format, taskVars, ask>>

\* the call of text_to_speech
TextToSpeech ==
    /\ speech.fn = "text_to_speech"
    /\ ~speech.done
    /\ speech' = Synthesized(speech, text_to_speech(speech.text, speech.use_male_voice,
                                                    speech.tts))
    /\ UNCHANGED <<coreVars, scorer, query, format, taskVars, ask>>

SpeechNext == SpeakText \/ TextToSpeech

SpeechSpec == SpeechInit /\ [][SpeechNext]_vars

(***************************************************************************)
(* The reminders: the table `tasks` of task_manager.py, the forms of       *)
(* admin_interface.py that add and delete tasks, and the job check_tasks   *)
(* of task_scheduler.py that the thread of start_scheduler runs once a     *)
(* minute.  A row is [id, time, message, is_active, last_run,              *)
(* repeat_daily]; ids are given by AUTOINCREMENT and rows are never        *)
(* removed, so row i of `store` has id i.  A time is a string of           *)
(* characters, and None and the empty string are <<>>.  Reading and        *)
(* writing the table may fail (the file is locked by the other process).   *)
(***************************************************************************)
\* The code points of the digits zero of Unicode 14.0 (category Nd); the
\* digits one to nine of a script follow its zero.  These are the characters
\* \d matches in a str pattern, and int() reads each as its value.
DecimalZeros ==
    {48, 1632, 1776, 1984, 2406, 2534, 2662, 2790, 2918, 3046, 3174, 3302,
     3430, 3558, 3664, 3792, 3872, 4160, 4240, 6112, 6160, 6470, 6608, 6784,
     6800, 6992, 7088, 7232, 7248, 42528, 43216, 43264, 43472, 43504, 43600,
     44016, 65296, 66720, 68912, 69734, 69872, 69942, 70096, 70384, 70736,
     70864, 71248, 71360, 71472, 71904, 72016, 72784, 73040, 73120, 92768,
     92864, 93008, 120782, 120792, 120802, 120812, 120822, 123200, 123632,
     125264, 130032}

DecimalCodes == {z + v : z \in DecimalZeros, v \in 0..9}

\* the code point of a decimal digit or of the colon
CodeOf ==
    [c \in {Chr(code) : code \in DecimalCodes} \cup {":"} |->
        IF c = ":" THEN 58 ELSE CHOOSE code \in DecimalCodes : Chr(code) = c]

IsDecimal(c) == c # ":" /\ c \in DOMAIN CodeOf

\* int(c) for a decimal digit
DigitValue(c) ==
    LET z == CHOOSE zero \in DecimalZeros : CodeOf[c] \in zero..(zero + 9)
    IN  CodeOf[c] - z

\* int(s) for a string of one or two digits
Number(s) ==
    IF Len(s) = 1 THEN DigitValue(s[1])
    ELSE 10 * DigitValue(s[1]) + DigitValue(s[2])

\* the directive %H, 2[0-3]|[0-1]\d|\d: the classes in brackets hold ASCII
\* digits only, \d any decimal digit
IsHour(s) ==
    \/ Len(s) = 2 /\ s[1] = "2" /\ s[2] \in {"0", "1", "2", "3"}
    \/ Len(s) = 2 /\ s[1] \in {"0", "1"} /\ IsDecimal(s[2])
    \/ Len(s) = 1 /\ IsDecimal(s[1])

\* the directive %M, [0-5]\d|\d
IsMinute(s) ==
    \/ Len(s) = 2 /\ s[1] \in {"0", "1", "2", "3", "4", "5"} /\ IsDecimal(s[2])
    \/ Len(s) = 1 /\ IsDecimal(s[1])

\* datetime.strptime(time_str, "%H:%M") returns: the string is an hour, a
\* colon and a minute, and nothing else
strptime(time_str) ==
    \E i \in 1..Len(time_str) :
        /\ time_str[i] = ":"
        /\ IsHour(SubSeq(time_str, 1, i - 1))
        /\ IsMinute(SubSeq(time_str, i + 1, Len(time_str)))

\* datetime.now().strftime("%H:%M")
strftime(now) ==
    <<DigitChars[(now.hour \div 10) + 1], DigitChars[(now.hour % 10) + 1], ":",
      DigitChars[(now.minute \div 10) + 1], DigitChars[(now.minute % 10) + 1]>>

\* What the database file is like during a call: "ok", "locked" (another
\* connection holds the file, and execute or commit raises) or "unopenable"
\* (sqlite3.connect raises: the file cannot be opened).
DBs == {"ok", "locked", "unopenable"}

\* task_manager.add_task: the result and the table after the call.  When
\* strptime raises ValueError, `return False` (line 110) runs the finally
\* clause with conn still None (line 103), 'conn' is in locals(), and
\* conn.close() raises AttributeError in place of the return.  The same
\* happens to the `return False` of line 130 when sqlite3.connect (line 116)
\* raised; once the connection is open, a failed write returns False.
add_task(rows, time_str, message, repeat_daily, db) ==
    IF ~strptime(time_str) THEN [result |-> "raise", store |-> rows]
    ELSE IF db = "unopenable" THEN [result |-> "raise", store |-> rows]
    ELSE IF db = "locked" THEN [result |-> "False", store |-> rows]
    ELSE [result |-> "True",
          store  |-> Append(rows, [id |-> Len(rows) + 1, time |-> time_str,
                                   message |-> message, is_active |-> TRUE,
                                   last_run |-> <<>>,
                                   repeat_daily |-> repeat_daily])]

\* the order of two strings of digits and colons as SQLite compares TEXT,
\* byte by byte
RECURSIVE TextLess(_, _)
TextLess(a, b) ==
    IF a = <<>> THEN b # <<>>
    ELSE IF b = <<>> THEN FALSE
    ELSE IF a[1] = b[1] THEN TextLess(Tail(a), Tail(b))
    ELSE CodeOf[a[1]] < CodeOf[b[1]]

\* ORDER BY time: the rows in the order of their times, rows of one time in
\* the order of their ids
InsertRow(sorted, r) ==
    LET k == Cardinality({i \in 1..Len(sorted) : ~TextLess(r.time, sorted[i].time)})
    IN  SubSeq(sorted, 1, k) \o <<r>> \o SubSeq(sorted, k + 1, Len(sorted))

RECURSIVE OrderByTime(_)
OrderByTime(rows) ==
    IF rows = <<>> THEN <<>>
    ELSE InsertRow(OrderByTime(SubSeq(rows, 1, Len(rows) - 1)), rows[Len(rows)])

IsActive(r) == r.is_active

\* the columns of the SELECT
TaskDict(r) == [id |-> r.id, time |-> r.time, message |-> r.message,
                repeat_daily |-> r.repeat_daily, last_run |-> r.last_run]

\* the outcomes of a read of the table: "unreadable" when sqlite3 raises
\* (the file cannot be opened, another connection holds it locked, or the
\* table is missing)
Reads == {"ok", "unreadable"}

\* task_manager.fetch_tasks; the except clause of lines 158-160 returns []
fetch_tasks(rows, read) ==
    IF read = "unreadable" THEN <<>>
    ELSE LET sorted == OrderByTime(SelectSeq(rows, IsActive))
         IN  [i \in 1..Len(sorted) |-> TaskDict(sorted[i])]

\* task_manager.update_last_run: the table after the call; stamp is
\* CURRENT_TIMESTAMP.  Whatever sqlite3 raises is logged (lines 185-186).
update_last_run(rows, task_id, stamp, db) ==
    IF db # "ok" THEN rows
    ELSE [i \in 1..Len(rows) |->
             IF rows[i].id = task_id THEN [rows[i] EXCEPT !.last_run = stamp]
             ELSE rows[i]]

\* task_manager.delete_task: the result and the table after the call.  conn
\* is bound by line 202 only, so the finally clause closes nothing when
\* sqlite3.connect raised.
delete_task(rows, task_id, db) ==
    IF db # "ok" THEN [result |-> "False", store |-> rows]
    ELSE [result |-> "True",
          store  |-> [i \in 1..Len(rows) |->
                         IF rows[i].id = task_id
                         THEN [rows[i] EXCEPT !.is_active = FALSE]
                         ELSE rows[i]]]

\* line 33-34: what announce_task says
Reminder(task) == <<"Excuse me, I have a reminder for you. ">> \o task.message

\* task_scheduler.announce_task for one task of the list check_tasks
\* fetched.  acc is the table as it is now, the ids announced and the ids
\* whose reminder was spoken so far; env is what the synthesis and the table
\* do during the call.  speak_text and update_last_run raise nothing.
announce_task(acc, task, stamp, env) ==
    [store     |-> update_last_run(acc.store, task.id, stamp, env.db),
     announced |-> Append(acc.announced, task.id),
     heard     |-> IF Truthy(speak_text(Reminder(task), TRUE, env.tts).result)
                   THEN Append(acc.heard, task.id) ELSE acc.heard]

\* lines 56-58: the task is announced
ShouldRun(task, current_time) ==
    task.time = current_time /\ (task.repeat_daily \/ task.last_run = <<>>)

\* what fails when a check begins: nothing, datetime.now() (line 52, caught
\* at line 61) or the read of the table
CheckFaults == {"none", "clock", "unreadable"}

\* task_scheduler.check_tasks at the time `now` of the clock, lines 52-58:
\* the tasks of the list fetched at line 53 that the loop calls
\* announce_task on, in the order of the loop.  The loop reads the list and
\* never the table, so what is written to the table after line 53 changes
\* nothing of it.
check_tasks(rows, now, fault) ==
    IF fault = "clock" THEN <<>>
    ELSE LET current_time == strftime(now)
             tasks == fetch_tasks(rows, IF fault = "unreadable" THEN "unreadable"
                                        ELSE "ok")
         IN  SelectSeq(tasks, LAMBDA task : ShouldRun(task, current_time))

\* a variant of Remaining that a failed announcement ends: the tasks after
\* it are left out
Remaining_stops(todo, env) ==
    IF env.db = "locked" \/ env.tts.speak_error THEN <<>> ELSE Tail(todo)

\* lines 55-59: announce_task catches every exception, so the loop goes on
\* with the tasks after the one it announced
Remaining(todo, env) == Tail(todo)

\* admin_interface.handle_add_task for the fields of the form: "missing"
\* when a field is empty, or the result of add_task
handle_add_task(rows, time, message, repeat_daily, db) ==
    IF time = <<>> \/ message = <<>> THEN [result |-> "missing", store |-> rows]
    ELSE add_task(rows, time, message, repeat_daily, db)

\* admin_interface.handle_delete_task
handle_delete_task(rows, task_id, db) == delete_task(rows, task_id, db)

\* the most tasks ever added
MaxTasks == 2

\* what is typed into the field `time` of the form
FormTimes == {<<"0","8",":","0","0">>, <<"8",":","0","0">>, <<"2","4",":","0","0">>,
              <<"0","8",":","0",Chr(1632)>>, <<>>}

FormMessages == {<<"Time to take your medicine.">>, <<>>}

\* the times of the clock at which check_tasks runs
TaskClock == {[hour |-> 8, minute |-> 0], [hour |-> 20, minute |-> 0]}

\* during one announcement: all is well, the engine raises while it speaks,
\* or the table cannot be written
AnnounceEnvs ==
    {[tts |-> [voices |-> <<VOICE_OTHER, VOICE_DAVID>>, speak_error |-> FALSE,
               save_error |-> FALSE], db |-> "ok"],
     [tts |-> [voices |-> <<VOICE_OTHER, VOICE_DAVID>>, speak_error |-> TRUE,
               save_error |-> FALSE], db |-> "ok"],
     [tts |-> [voices |-> <<VOICE_OTHER, VOICE_DAVID>>, speak_error |-> FALSE,
               save_error |-> FALSE], db |-> "locked"]}

\* the table is empty and start_scheduler() has not been called
TaskInit ==
    /\ state = "Idle"
    /\ running = TRUE
    /\ last = NoPass
    /\ scorer = NoCall
    /\ query = NoQuery
    /\ format = NoFormat
    /\ speech = NoSpeech
    /\ store = <<>>
    /\ op = NoOp
    /\ sched = NoSched
    /\ ask = NoAsk

\* the record of a submission of the form that adds a task
Added(o, time, r) ==
    [NoOp EXCEPT !.name = "add", !.time = time, !.result = r.result,
                 !.id = IF r.result = "True" THEN Len(r.store) ELSE 0,
                 !.deleted = o.deleted]

\* POST /add_task.  The admin interface is another process: its requests
\* are served while a check of the scheduler is under way.
HandleAddTask ==
    /\ Len(store) < MaxTasks
    /\ \E time \in FormTimes, message \in FormMessages, repeat_daily \in BOOLEAN,
          db \in DBs :
         /\ store' = handle_add_task(store, time, message, repeat_daily, db).store
         /\ op' = Added(op, time, handle_add_task(store, time, message, repeat_daily, db))
    /\ UNCHANGED <<coreVars, callVars, sched, ask>>

\* the record of a request that deletes a task; `deleted` keeps the ids of
\* the tasks that delete_task was called on with success
Deleted(o, rows, task_id, r) ==
    [NoOp EXCEPT !.name = "delete", !.id = task_id, !.result = r.result,
                 !.deleted = IF r.result = "True" /\ task_id \in 1..Len(rows)
                             THEN o.deleted \cup {task_id} ELSE o.deleted]

\* GET /delete_task/<task_id>
HandleDeleteTask ==
    /\ \E task_id \in 1..MaxTasks, db \in DBs :
         /\ store' = handle_delete_task(store, task_id, db).store
         /\ op' = Deleted(op, store, task_id, handle_delete_task(store, task_id, db))
    /\ UNCHANGED <<coreVars, callVars, sched, ask>>

\* task_scheduler.start_scheduler, lines 64-81: the thread of run_scheduler
\* starts.  The function is called once.
StartScheduler ==
    /\ ~sched.started
    /\ sched' = [sched EXCEPT !.started = TRUE]
    /\ UNCHANGED <<coreVars, callVars, store, op, ask>>

\* the ids of a list of tasks
TaskIds(tasks) == [k \in 1..Len(tasks) |-> tasks[k].id]

\* Lines 69-76 and 52-53: the job of the scheduler, once a minute, begins a
\* check.  run_pending runs the job in the one thread of the scheduler, so
\* a check begins when the check before it has ended.
CheckTasks ==
    /\ sched.started
    /\ sched.todo = <<>>
    /\ \E now \in TaskClock, fault \in CheckFaults :
         sched' = [started   |-> TRUE,
                   now       |-> strftime(now),
                   fault     |-> fault,
                   due       |-> TaskIds(check_tasks(store, now, fault)),
                   todo      |-> check_tasks(store, now, fault),
                   announced |-> <<>>,
                   heard     |-> <<>>]
    /\ UNCHANGED <<coreVars, callVars, store, op, ask>>

\* the scheduler after announce_task returned r for the first task of todo
Announced(c, r, env) ==
    [c EXCEPT !.todo = Remaining(c.todo, env), !.announced = r.announced,
              !.heard = r.heard]

\* a variant of AnnounceTask whose announcement sends the assistant back to
\* the wake loop
AnnounceTask_interrupts ==
    /\ sched.todo # <<>>
    /\ \E env \in AnnounceEnvs :
         LET r == announce_task([store |-> store, announced |-> sched.announced,
                                 heard |-> sched.heard],
                                Head(sched.todo), sched.now, env)
         IN  /\ store' = r.store
             /\ sched' = Announced(sched, r, env)
    /\ state' = "Idle"
    /\ UNCHANGED <<running, last, callVars, op, ask>>

\* Line 59: the check under way announces the next task of its list.  The
\* call blocks while the engine speaks and writes last_run afterwards, to
\* the table as it is by then.
AnnounceTask ==
    /\ sched.todo # <<>>
    /\ \E env \in AnnounceEnvs :
         LET r == announce_task([store |-> store, announced |-> sched.announced,
                                 heard |-> sched.heard],
                                Head(sched.todo), sched.now, env)
         IN  /\ store' = r.store
             /\ sched' = Announced(sched, r, env)
    /\ UNCHANGED <<coreVars, callVars, op, ask>>

TaskNext ==
    HandleAddTask \/ HandleDeleteTask \/ StartScheduler \/ CheckTasks \/ AnnounceTask

TaskSpec == TaskInit /\ [][TaskNext]_vars

(***************************************************************************)
(* The assistant and the scheduler side by side: the loops of main.py in   *)
(* one thread, the job check_tasks in the thread of start_scheduler, over  *)
(* a table that holds a reminder.  The two share the synthesis functions   *)
(* and nothing else.  main.py does not import task_scheduler and nothing   *)
(* in the repository calls start_scheduler: the program starts without the *)
(* thread, and the action StartScheduler is the call made by a program     *)
(* that uses both modules.                                                 *)
(***************************************************************************)
\* the table when the program starts
ReminderTable ==
    <<[id |-> 1, time |-> <<"0","8",":","0","0">>,
       message |-> <<"Time to take your medicine.">>, is_active |-> TRUE,
       last_run |-> <<>>, repeat_daily |-> TRUE]>>

SystemInit ==
    /\ state = "Idle"
    /\ running = TRUE
    /\ last = NoPass
    /\ scorer = NoCall
    /\ query = NoQuery
    /\ format = NoFormat
    /\ speech = NoSpeech
    /\ store = ReminderTable
    /\ op = NoOp
    /\ sched = NoSched
    /\ ask = NoAsk

\* The assistant's side of the combined system hears three utterances (the
\* wake word, a time question and a word that is neither) through an engine
\* that speaks or fails to.
SystemUtterances == {UtteranceList[2], UtteranceList[4], UtteranceList[8]}

SystemTTSs ==
    {NoTTS} \cup {t \in TTSs : t.voices = <<VOICE_OTHER, VOICE_DAVID>> /\ ~t.save_error}

SystemWakeInputs ==
    {in \in WakeInputs : in.text \in SystemUtterances \cup {UtteranceList[1]}
                          /\ in.tts \in SystemTTSs /\ in.greeting = 1}

SystemConverseInputs ==
    {in \in ConverseInputs : in.text \in SystemUtterances \cup {UtteranceList[1]}
                              /\ in.tts \in SystemTTSs /\ in.fault = "none"}

SystemWake == WakePass(SystemWakeInputs)

SystemConverse == ConversePass(SystemConverseInputs)

SystemNext ==
    SystemWake \/ SystemConverse \/ StartScheduler \/ CheckTasks \/ AnnounceTask

SystemSpec == SystemInit /\ [][SystemNext]_vars

(***************************************************************************)
(* src/whisper.cpp/ask_loop.py: the loop of main() polls audio.wav, runs   *)
(* whisper-cli on it when its modification time changed, reads the         *)
(* transcript, asks the model and speaks the answer.  `ask.file` is the    *)
(* modification time of audio.wav, 0 when there is no such file; the       *)
(* recorder writes and removes the file while main() runs.  main() looks   *)
(* at the file with two calls, os.path.exists and then os.path.getmtime,   *)
(* before the loop (lines 96, 97) and in every pass (lines 102, 103);      *)
(* `ask.at` is the line main() is about to run.  `ask.raised` is the       *)
(* exception that left main(), `ask.pass` what the pass under way, or the  *)
(* last one, has done.                                                     *)
(***************************************************************************)
\* the modification times audio.wav takes
MaxMtime == 2

Mtimes == 1..MaxMtime

\* what whisper-cli leaves in audio.wav.txt: Absent when there is no such
\* file, Undecodable when its bytes are no UTF-8, or its characters
Absent == <<"absent">>

Undecodable == <<"undecodable">>

TxtFiles == {Absent, Undecodable, <<>>, <<"\f", "\n">>, <<"h", "i">>,
             <<"\\xa0", "h", "i", "\r", "\n">>, <<"a", "\r", "\n", "b">>,
             <<"a", "\r", "b">>}

\* what ollama's chat returns: a dict or an object, whose message is
\* missing, has no content, or has one
Resps == [kind : {"dict", "object"}, message : {"none", "empty", "content"}]

\* the content of a message that has one
Content == <<"It is five o'clock.">>

\* str(resp)
str(resp) == <<"str", resp.kind, resp.message>>

\* what happens during a pass: subprocess.run returns, raises
\* CalledProcessError (whisper-cli failed) or FileNotFoundError (there is no
\* whisper-cli), chat and the engine succeed or raise, and Ctrl-C is pressed
\* at one point of the pass or not at all
AskWhispers == {"ok", "CalledProcessError", "FileNotFoundError"}

AskChats == {"ok", "raise"}

AskEngines == {"ok", "raise"}

Interrupts == {"none", "settle", "whisper", "chat", "speak", "sleep"}

\* the text a file opened in text mode gives: "\r\n" and "\r" are read as "\n"
RECURSIVE Newlines(_)
Newlines(s) ==
    IF s = <<>> THEN <<>>
    ELSE IF Head(s) = "\r"
         THEN <<"\n">> \o Newlines(IF Len(s) > 1 /\ s[2] = "\n"
                                   THEN Tail(Tail(s)) ELSE Tail(s))
         ELSE <<Head(s)>> \o Newlines(Tail(s))

\* f.read() raised
UnicodeDecodeError == <<"UnicodeDecodeError">>

\* lines 56-61
read_transcript(txt) ==
    IF txt = Absent THEN <<>>
    ELSE IF txt = Undecodable THEN UnicodeDecodeError
    ELSE strip(Newlines(txt))

\* lines 68-77: the answer taken from the response
ask_qwen(resp) == IF resp.message = "content" THEN Content ELSE str(resp)

\* lines 123-128 and 129-131: the handlers of the loop.  An exception is
\* printed and followed by time.sleep(2); Ctrl-C, also during that sleep,
\* leaves main() through sys.exit(0).
Handled(a, error, interrupt) ==
    IF interrupt = "sleep"
    THEN [a EXCEPT !.running = FALSE, !.pass.error = "KeyboardInterrupt"]
    ELSE [a EXCEPT !.pass.error = error]

Exited(a) == [a EXCEPT !.running = FALSE, !.pass.error = "KeyboardInterrupt"]

\* line 122: time.sleep(POLL_INTERVAL) at the end of a pass
Slept(a, interrupt) == IF interrupt = "sleep" THEN Exited(a) ELSE a

\* lines 119-121: the question is asked and the answer spoken
Answer(a, q, chat, resp, engine, interrupt) ==
    IF interrupt = "chat" THEN Exited(a)
    ELSE IF chat = "raise" THEN Handled(a, "chat", interrupt)
    ELSE IF interrupt = "speak" THEN Exited(a)
    ELSE IF engine = "raise" THEN Handled(a, "speak", interrupt)
    ELSE Slept([a EXCEPT !.pass.spoken = <<ask_qwen(resp)>>], interrupt)

\* a variant of Question that remembers the question once it was answered
Question_remembered_late(a, q, chat, resp, engine, interrupt) ==
    IF q = <<>> THEN a
    ELSE IF q = a.last_question THEN a
    ELSE Answer([a EXCEPT !.last_question = IF chat = "ok" /\ engine = "ok"
                                             THEN q ELSE a.last_question,
                          !.pass.asked = q],
                q, chat, resp, engine, interrupt)

\* lines 111-121: what is done with the transcript q; `continue` on lines
\* 113 and 116 skips the sleep of line 122
Question(a, q, chat, resp, engine, interrupt) ==
    IF q = <<>> THEN a
    ELSE IF q = a.last_question THEN a
    ELSE Answer([a EXCEPT !.last_question = q, !.pass.asked = q],
                q, chat, resp, engine, interrupt)

\* lines 108-110: the wait, then whisper-cli runs and the transcript is
\* read; what these raise is caught at line 123 or at line 126
Transcribe(a, whisper, txt, chat, resp, engine, interrupt) ==
    IF interrupt = "settle" THEN Exited(a)
    ELSE IF interrupt = "whisper"
    THEN Exited([a EXCEPT !.pass.transcriptions = 1])
    ELSE IF whisper # "ok"
    THEN Handled([a EXCEPT !.pass.transcriptions = 1], "whisper", interrupt)
    ELSE IF read_transcript(txt) = UnicodeDecodeError
    THEN Handled([a EXCEPT !.pass.transcriptions = 1], "read", interrupt)
    ELSE Question([a EXCEPT !.pass.transcriptions = 1,
                            !.pass.transcript = read_transcript(txt)],
                  read_transcript(txt), chat, resp, engine, interrupt)

\* the question the model was asked last, after a pass
AskedLast(a) == IF a.pass.asked # NoQuestion THEN a.pass.asked ELSE a.asked_before

\* Ctrl-C before the loop, outside the try of line 99: KeyboardInterrupt
\* leaves main()
Interrupted(a) == [a EXCEPT !.running = FALSE, !.raised = "KeyboardInterrupt"]

\* line 96: os.path.exists(AUDIO_FILE) before the loop
start_exists(a, interrupt) ==
    IF interrupt THEN Interrupted(a)
    ELSE [a EXCEPT !.at = IF a.file # 0 THEN "line 97" ELSE "line 102"]

\* line 97: os.path.getmtime(AUDIO_FILE) before the loop, outside any try.
\* When the file was removed since line 96, FileNotFoundError leaves main().
start_getmtime(a, interrupt) ==
    IF interrupt THEN Interrupted(a)
    ELSE IF a.file = 0 THEN [a EXCEPT !.running = FALSE, !.raised = "FileNotFoundError"]
    ELSE [a EXCEPT !.last_mtime = a.file, !.at = "line 102"]

\* lines 101-102: a pass of `while True` begins with os.path.exists; when
\* there is no file the pass is the sleep of line 122
ask_exists(a, interrupt) ==
    IF a.file # 0
    THEN [a EXCEPT !.at = "line 103", !.asked_before = AskedLast(a),
                   !.pass = NoAskPass]
    ELSE Slept([a EXCEPT !.asked_before = AskedLast(a), !.pass = NoAskPass],
               interrupt)

\* lines 103-128: the rest of the pass, from os.path.getmtime on.  When the
\* file was removed since line 102, FileNotFoundError is caught at line 126.
ask_pass(a, whisper, txt, chat, resp, engine, interrupt) ==
    IF a.file = 0
    THEN Handled([a EXCEPT !.at = "line 102"], "getmtime", interrupt)
    ELSE IF a.file # a.last_mtime
    THEN Transcribe([a EXCEPT !.at = "line 102", !.last_mtime = a.file,
                              !.pass.changed = TRUE, !.pass.mtime = a.file],
                    whisper, txt, chat, resp, engine, interrupt)
    ELSE Slept([a EXCEPT !.at = "line 102", !.pass.mtime = a.file], interrupt)

\* lines 92-93: main() was called, audio.wav is there or not
AskInit ==
    /\ state = "Idle"
    /\ running = TRUE
    /\ last = NoPass
    /\ scorer = NoCall
    /\ query = NoQuery
    /\ format = NoFormat
    /\ speech = NoSpeech
    /\ store = <<>>
    /\ op = NoOp
    /\ sched = NoSched
    /\ ask \in {[NoAsk EXCEPT !.running = TRUE, !.file = m] : m \in {0} \cup Mtimes}

\* the recorder writes audio.wav again, or the file is removed
WriteAudio ==
    /\ \E m \in ({0} \cup Mtimes) \ {ask.file} : ask' = [ask EXCEPT !.file = m]
    /\ UNCHANGED <<coreVars, callVars, taskVars>>

\* line 96
AskStart ==
    /\ ask.running
    /\ ask.at = "line 96"
    /\ \E interrupt \in BOOLEAN : ask' = start_exists(ask, interrupt)
    /\ UNCHANGED <<coreVars, callVars, taskVars>>

\* line 97
AskStartStamp ==
    /\ ask.running
    /\ ask.at = "line 97"
    /\ \E interrupt \in BOOLEAN : ask' = start_getmtime(ask, interrupt)
    /\ UNCHANGED <<coreVars, callVars, taskVars>>

\* lines 101-102 of a pass of the loop
AskLook ==
    /\ ask.running
    /\ ask.at = "line 102"
    /\ \E interrupt \in {"none", "sleep"} : ask' = ask_exists(ask, interrupt)
    /\ UNCHANGED <<coreVars, callVars, taskVars>>

\* lines 103-128 of a pass of the loop
AskPass ==
    /\ ask.running
    /\ ask.at = "line 103"
    /\ \E whisper \in AskWhispers, txt \in TxtFiles, chat \in AskChats,
          resp \in Resps, engine \in AskEngines, interrupt \in Interrupts :
         ask' = ask_pass(ask, whisper, txt, chat, resp, engine, interrupt)
    /\ UNCHANGED <<coreVars, callVars, taskVars>>

AskNext == WriteAudio \/ AskStart \/ AskStartStamp \/ AskLook \/ AskPass

AskSpec == AskInit /\ [][AskNext]_vars

(***************************************************************************)
(* Properties.  `last` is the pass just made and `state` the state it left *)
(* the assistant in, so a property of one pass is a state predicate over   *)
(* the two, and a property of two passes in a row is a property of a step. *)
(***************************************************************************)
\* the number of times a pass spoke a text of the given kind aloud
SpeakCalls(out, kind) ==
    Cardinality({i \in 1..Len(out) : out[i].fn = "speak_text" /\ out[i].kind = kind})

\* a score of the middle band: at least the confirm cutoff, below the accept cutoff
MiddleBand(score) == Geq(score, confirm_threshold) /\ ~Geq(score, accept_threshold)

\* the pass scored an utterance while the assistant was idle
ScoredIdle(l) == l.mode = "Idle" /\ l.scored

\* the pass captured no usable utterance
InputFailed(o) == o.input \in {"capture_failed", "capture_raised", "no_transcript"}

\* the reply holds an affirmative word as one of its tokens
Affirmative(text) == \E i \in 1..Len(split(NormText(text))) :
                         split(NormText(text))[i] \in AFFIRMATIVE

\* C1: an utterance heard while idle whose score is at least 0.55 and below
\* 0.9 makes the assistant speak the confirmation prompt and wait for the
\* confirmation.
C1_MiddleBandAsksConfirmation ==
    (ScoredIdle(last) /\ MiddleBand(last.score))
        => /\ state = "AwaitingConfirmation"
           /\ SpeakCalls(last.o.out, "prompt") = 1

\* C2: an utterance heard while idle whose score is at least 0.9 makes the
\* assistant speak exactly one greeting and nothing else, and start the
\* conversation.
C2_ConfidentWakeGreetsOnce ==
    (ScoredIdle(last) /\ Geq(last.score, accept_threshold))
        => /\ state = "Conversing"
           /\ SpeakCalls(last.o.out, "greeting") = 1
           /\ \A i \in 1..Len(last.o.out) : last.o.out[i].kind = "greeting"

C2_Witness ==
    /\ ScoredIdle(last) /\ Geq(last.score, accept_threshold)
    /\ ~Geq(last.score, <<1, 1>>)
    /\ state = "Conversing"
    /\ SpeakCalls(last.o.out, "greeting") = 1

\* C3: an utterance heard while idle whose score is below 0.55 leaves the
\* assistant idle and silent, and the conversation is entered only by a pass
\* that scored an utterance at least 0.55.
C3_LowScoreStaysIdle ==
    [][/\ (ScoredIdle(last') /\ ~Geq(last'.score, confirm_threshold))
            => (state' = "Idle" /\ last'.o.out = <<>>)
       /\ (state # "Conversing" /\ state' = "Conversing")
            => (last'.scored /\ Geq(last'.score, confirm_threshold))]_vars

C3_Witness ==
    /\ ScoredIdle(last) /\ ~Geq(last.score, confirm_threshold)
    /\ Gt(last.score, <<0, 1>>)
    /\ state = "Idle"
    /\ last.o.out = <<>>

\* C4: after a middle-band utterance, a reply that holds an affirmative
\* token starts the conversation with a greeting, and any other reply sends
\* the assistant back to idle without a greeting.
C4_ConfirmationDecides ==
    [][(ScoredIdle(last) /\ MiddleBand(last.score) /\ last'.o.input = "text")
          => IF Affirmative(last'.o.heard)
             THEN state' = "Conversing" /\ SpeakCalls(last'.o.out, "greeting") = 1
             ELSE state' = "Idle" /\ SpeakCalls(last'.o.out, "greeting") = 0]_vars

\* C5: after a middle-band utterance, a re-listen that captures nothing
\* sends the assistant back to idle without a greeting.
C5_TimeoutReturnsToIdle ==
    [][(ScoredIdle(last) /\ MiddleBand(last.score) /\ InputFailed(last'.o))
          => (state' = "Idle" /\ SpeakCalls(last'.o.out, "greeting") = 0)]_vars

\* C6: every utterance heard in the conversation is answered aloud, also
\* when the responder fails.
C6_EveryUtteranceAnswered ==
    (last.mode = "Conversing" /\ last.o.input = "text")
        => SpeakCalls(last.o.out, "response") >= 1

\* C7: once the conversation has started it never ends: whatever a turn
\* meets, the next state is the conversation again and the assistant runs on.
C7_ConversingAbsorbing ==
    [][state = "Conversing" => (state' = "Conversing" /\ running')]_vars

\* C8: no failure of the capture, the recognizer, the responder or the
\* synthesis stops the assistant: it is always running, in one of its three
\* states.
C8_FailuresRecoverable ==
    /\ running
    /\ state \in {"Idle", "AwaitingConfirmation", "Conversing"}

\* C9: a pass that captures no usable utterance leaves the state as it was,
\* speaks nothing and does not call the responder.
C9_InputFailureChangesNothing ==
    InputFailed(last.o)
        => /\ state = last.mode
           /\ last.o.out = <<>>
           /\ last.o.llm_calls = 0
           /\ running

\* C10: the score of a text is the best score over all the wake phrases: it
\* is at least the score the text gets against each phrase alone, so 1.0 for
\* a text that is one of the phrases.
C10_ReturnsBestScore ==
    scorer.done
        => \A i \in 1..Len(scorer.phrases) :
               Geq(scorer.score, wake_score(scorer.text, <<scorer.phrases[i]>>))

\* the scorer was called with the single phrase p
ScoredAgainst(p) == scorer.done /\ scorer.phrases = <<p>>

\* the lists of one phrase
OnePhrase == {l \in PhraseLists : Len(l) = 1}

\* C11 as stated: for every phrase p, the normalized form of p scored
\* against p alone gives exactly 1.0.
C11_Original ==
    \A l \in OnePhrase :
        (ScoredAgainst(l[1]) /\ scorer.text = NormWake(l[1]))
            => scorer.score = <<1, 1>>

\* C11: for every phrase p that is not empty once normalized, the normalized
\* form of p scored against p alone gives exactly 1.0.
C11_NormalizedPhraseScoresOne ==
    \A l \in OnePhrase :
        (ScoredAgainst(l[1]) /\ scorer.text = NormWake(l[1]) /\ NormWake(l[1]) # <<>>)
            => scorer.score = <<1, 1>>

C11_Witness ==
    /\ scorer.done
    /\ scorer.phrases = << <<"H","e","y",","," ","S","a","t","h","i","!">> >>
    /\ scorer.text = <<"h","e","y"," ","s","a","t","h","i">>
    /\ scorer.score = <<1, 1>>

\* C12 as stated: a text that contains the phrase p scores at least 0.95
\* against p alone, and exactly 0.95 unless it is p once normalized.
C12_Original ==
    \A l \in OnePhrase :
        (ScoredAgainst(l[1]) /\ Contains(scorer.text, l[1]))
            => /\ Geq(scorer.score, Frac(95, 100))
               /\ NormText(scorer.text) # NormWake(l[1])
                      => scorer.score = Frac(95, 100)

\* C12: for a phrase p that is not empty once normalized, a text that
\* contains p (as written, or once both are normalized) scores 1.0 against p
\* alone when it is p once normalized, and exactly 0.95 otherwise.
C12_SubstringScores ==
    \A l \in OnePhrase :
        (/\ ScoredAgainst(l[1])
         /\ NormWake(l[1]) # <<>>
         /\ \/ Contains(scorer.text, l[1])
            \/ Contains(NormText(scorer.text), NormWake(l[1])))
            => scorer.score = IF NormText(scorer.text) = NormWake(l[1])
                              THEN <<1, 1>> ELSE Frac(95, 100)

C12_Witness ==
    /\ scorer.done
    /\ scorer.phrases = << <<"s","a","t","h","i">> >>
    /\ scorer.text = <<"s","a","t","h","i","s">>
    /\ scorer.score = <<19, 20>>

\* C13: the empty text scores 0.0 against any list of phrases, and any text
\* scores 0.0 against a list with no phrase or with only phrases that are
\* empty once normalized.
C13_EmptyScoresZero ==
    (/\ scorer.done
     /\ \/ scorer.text = <<>>
        \/ \A i \in 1..Len(scorer.phrases) : NormWake(scorer.phrases[i]) = <<>>)
        => scorer.score = <<0, 1>>

C13_Witness ==
    /\ scorer.done
    /\ scorer.text = <<"s","a","t","h","i">>
    /\ scorer.phrases = << <<"?", "!">> >>
    /\ scorer.score = <<0, 1>>

\* C14: every score a call returns is in [0, 1]; the score is a function of
\* the text and the wake phrases only: two calls on the same text return the
\* same score, whatever was scored between them; and no step of a call
\* changes the wake phrases, the text under study or the assistant.
C14_ScoreInUnitIntervalAndPure ==
    /\ [](\A n \in 1..Len(scorer.returned) :
             /\ Geq(scorer.returned[n][2], <<0, 1>>)
             /\ Geq(<<1, 1>>, scorer.returned[n][2]))
    /\ [](\A m, n \in 1..Len(scorer.returned) :
             scorer.returned[m][1] = scorer.returned[n][1]
                => scorer.returned[m][2] = scorer.returned[n][2])
    /\ [][/\ scorer'.phrases = scorer.phrases
          /\ scorer'.input = scorer.input
          /\ UNCHANGED <<state, running, last>>]_vars

C14_Witness ==
    /\ scorer.calls = 3
    /\ scorer.returned[1][1] = scorer.returned[3][1]
    /\ scorer.returned[2][1] # scorer.returned[1][1]
    /\ scorer.returned[3][2] = scorer.returned[1][2]
    /\ Gt(scorer.returned[1][2], <<0, 1>>)
    /\ Gt(scorer.returned[2][2], scorer.returned[1][2])
    /\ Len(scorer.phrases) > 1

\* C15: an utterance heard while idle that is exactly one of the configured
\* wake phrases is greeted and starts the conversation.
C15_EveryWakePhraseTriggers ==
    (/\ last.mode = "Idle"
     /\ last.o.input = "text"
     /\ \E i \in 1..Len(WAKE_WORDS) : last.o.heard = WAKE_WORDS[i])
        => /\ state = "Conversing"
           /\ SpeakCalls(last.o.out, "greeting") = 1

\* the text as process_time_query hands it to the template searches
QueryText == strip(lower(query.text))

\* a call on a text that is not empty, with a working clock and search
Classified == query.done /\ query.fault = "none" /\ query.text # <<>>

\* some template of some group matches the text
TemplateMatches ==
    \/ detect_date_intent(QueryText) \/ detect_time_intent(QueryText)
    \/ detect_day_intent(QueryText) \/ detect_calendar_intent(QueryText)

\* C16: the first of the groups Date, Time, Day, Calendar with a matching
\* template decides the intent, so a text that matches a Date and a Time
\* template is Date, and so is "what date and time is it".
C16_TemplatePrecedence ==
    /\ (Classified /\ TemplateMatches)
          => query.intent = IF detect_date_intent(QueryText) THEN "Date"
                            ELSE IF detect_time_intent(QueryText) THEN "Time"
                            ELSE IF detect_day_intent(QueryText) THEN "Day"
                            ELSE "Calendar"
    /\ (Classified /\ query.text = <<"w","h","a","t"," ","d","a","t","e"," ","a","n","d"," ","t","i","m","e"," ","i","s"," ","i","t">>)
          => query.intent = "Date"

C16_Witness ==
    /\ Classified
    /\ detect_date_intent(QueryText)
    /\ detect_time_intent(QueryText)
    /\ query.intent = "Date"

\* C17: every text gets exactly one of Date, Time, Day, Calendar, None, and
\* the empty text gets None.
C17_TotalAndEmptyIsNone ==
    (query.done /\ query.fault = "none")
        => /\ query.intent \in {"Date", "Time", "Day", "Calendar", "None"}
           /\ query.text = <<>> => query.intent = "None"

\* the text holds one of the words
HoldsOneOf(words) == \E w \in words : Contains(QueryText, w)

\* C18: a text that no template matches is Date when it holds "date",
\* "today", "day" or "month", otherwise Time when it holds "time", "clock"
\* or "hour", and otherwise None.
C18_KeywordFallback ==
    (Classified /\ ~TemplateMatches)
        => query.intent =
              IF HoldsOneOf({<<"d","a","t","e">>, <<"t","o","d","a","y">>,
                             <<"d","a","y">>, <<"m","o","n","t","h">>})
              THEN "Date"
              ELSE IF HoldsOneOf({<<"t","i","m","e">>, <<"c","l","o","c","k">>,
                                  <<"h","o","u","r">>})
              THEN "Time"
              ELSE "None"

C18_Witness ==
    /\ Classified
    /\ ~TemplateMatches
    /\ HoldsOneOf({<<"t","o","d","a","y">>})
    /\ HoldsOneOf({<<"c","l","o","c","k">>})
    /\ query.intent = "Date"

\* the pass answered an utterance in the conversation
Answering == last.mode = "Conversing" /\ last.o.input = "text"

\* the pair of the formatter of an intent at an instant, with a working clock
Formatter(intent, now) ==
    CASE intent = "Date" -> get_current_date(now, "none")
      [] intent = "Time" -> get_current_time(now, FALSE)
      [] intent = "Day" -> get_current_day(now)
      [] intent = "Calendar" -> get_month_calendar(now)

\* the text of the first call of speak_text, <<>> when there is none
Spoken(out) ==
    IF out # <<>> /\ out[1].fn = "speak_text" THEN out[1].text ELSE <<>>

\* the text has the part
HasPart(text, part) == \E i \in 1..Len(text) : text[i] = part

\* C19: an utterance of intent Date, Time, Day or Calendar is answered by
\* the formatter of that intent and the responder is not called; an
\* utterance of intent None goes to the responder exactly once, and the
\* text the responder returns is both spoken and shown.
C19_OneResponderPerUtterance ==
    Answering
        => /\ last.o.intent \in {"Date", "Time", "Day", "Calendar"}
                => /\ last.o.llm_calls = 0
                   /\ last.fault = "none"
                          => /\ Spoken(last.o.out)
                                 = Formatter(last.o.intent, last.now).spoken
                             /\ last.o.shown
                                 = Formatter(last.o.intent, last.now).display
           /\ last.o.intent = "None"
                => /\ last.o.llm_calls = 1
                   /\ last.llm = "ok"
                          => /\ SpeakCalls(last.o.out, "response") = 1
                             /\ Spoken(last.o.out) = query_gemma(last.o.heard, "ok").text
                             /\ last.o.shown = query_gemma(last.o.heard, "ok").text

C19_Witness ==
    /\ Answering
    /\ last.o.intent = "Calendar"
    /\ last.fault = "none"
    /\ last.o.llm_calls = 0
    /\ SpeakCalls(last.o.out, "response") = 1
    /\ HasPart(Spoken(last.o.out), "We are in the month of ")
    /\ HasPart(last.o.shown, " Days in month: ")

\* the ordinal of a day of the month
Ordinal(d) ==
    ToString(d) \o (IF (d % 100) \in 10..20 THEN "th"
                    ELSE IF d % 10 = 1 THEN "st"
                    ELSE IF d % 10 = 2 THEN "nd"
                    ELSE IF d % 10 = 3 THEN "rd"
                    ELSE "th")

\* the pass answered "what's the date today", with a working clock and search
AskedDate ==
    /\ Answering
    /\ last.fault = "none"
    /\ Contains(lower(last.o.heard),
                <<"w","h","a","t","'","s"," ","t","h","e"," ","d","a","t","e"," ","t","o","d","a","y">>)

\* C20: in the conversation "what's the date today" is a Date query, and
\* the spoken answer holds the name of the current weekday and the current
\* day of the month with its ordinal suffix.
C20_DateQuerySpoken ==
    AskedDate
        => /\ last.o.intent = "Date"
           /\ HasPart(Spoken(last.o.out), day_name(last.now))
           /\ HasPart(Spoken(last.o.out), Ordinal(last.now.day))

C20_Witness ==
    /\ AskedDate
    /\ last.o.intent = "Date"
    /\ HasPart(Spoken(last.o.out), "Thursday")
    /\ HasPart(Spoken(last.o.out), "29th")

\* C21: the ordinal of a day number d is d followed by "th" when d mod 100
\* is in 10..20, and otherwise by "st", "nd" or "rd" when the last digit of
\* d is 1, 2 or 3 and by "th" for every other digit: 1 gives "1st", 11
\* gives "11th", 21 gives "21st" and 112 gives "112th".
C21_OrdinalSuffix ==
    (format.fn = "get_ordinal_suffix" /\ format.done)
        => /\ format.ordinal = Ordinal(format.day)
           /\ format.day = 1 => format.ordinal = "1st"
           /\ format.day = 11 => format.ordinal = "11th"
           /\ format.day = 21 => format.ordinal = "21st"
           /\ format.day = 112 => format.ordinal = "112th"

C21_Witness ==
    /\ format.fn = "get_ordinal_suffix"
    /\ format.done
    /\ format.day = 112
    /\ format.ordinal = "112th"

\* the hour a 12-hour clock shows at the hour h of the day
SpokenHour(h) == CHOOSE k \in 1..12 : k % 12 = h % 12

\* C22: the spoken time is on a 12-hour clock at every hour 0..23 and
\* minute 0..59: the hour spoken is the hour mod 12 with 12 in place of 0,
\* the meridian is "pm" exactly when the hour is 12 or more and "am"
\* otherwise, and the minute is said "o'clock" for 0, "oh N" for N in 1..9
\* and as the plain number for 10..59.
C22_TwelveHourClock ==
    (format.fn = "get_current_time" /\ format.done)
        => /\ Len(format.spoken) = 6
           /\ format.spoken[1] = "It's "
           /\ format.spoken[2] = ToString(SpokenHour(format.hour))
           /\ format.spoken[3] = " "
           /\ format.spoken[5] = " "
           /\ format.spoken[6] \in {"am", "pm"}
           /\ (format.spoken[6] = "pm") <=> (format.hour >= 12)
           /\ format.minute = 0 => format.spoken[4] = "o'clock"
           /\ format.minute \in 1..9
                => format.spoken[4] = "oh " \o ToString(format.minute)
           /\ format.minute \in 10..59 => format.spoken[4] = ToString(format.minute)

C22_Witness ==
    /\ format.fn = "get_current_time"
    /\ format.done
    /\ format.hour = 12
    /\ format.minute = 5
    /\ format.spoken = <<"It's ", "12", " ", "oh 5", " ", "pm">>

\* the calls of speak_text of a turn of the conversation that did not speak:
\* the result is False (the engine raised) or None (no voice is installed)
FailedSpeaking(o) ==
    {i \in 1..Len(o.out) : /\ o.out[i].fn = "speak_text"
                           /\ o.out[i].kind = "response"
                           /\ ~Truthy(o.out[i].result)}

\* C23: when speak_text, the primary synthesis, fails on a response of the
\* conversation (it returns failure, or there is no voice), text_to_speech,
\* the secondary synthesis, is called next on the same response; whether
\* that call succeeds or not, the loop goes on and the conversation state is
\* the one the turn began in.
C23_BackupSynthesis ==
    (last.mode = "Conversing" /\ FailedSpeaking(last.o) # {})
        => /\ \A i \in FailedSpeaking(last.o) :
                /\ i < Len(last.o.out)
                /\ last.o.out[i + 1].fn = "text_to_speech"
                /\ last.o.out[i + 1].text = last.o.out[i].text
           /\ running
           /\ state = "Conversing"

C23_Witness ==
    /\ last.mode = "Conversing"
    /\ last.o.intent = "Time"
    /\ Len(last.o.out) = 2
    /\ last.o.out[1].fn = "speak_text"
    /\ last.o.out[1].result = "False"
    /\ last.o.out[2].fn = "text_to_speech"
    /\ last.o.out[2].result = "None"
    /\ last.o.out[2].text = last.o.out[1].text
    /\ running
    /\ state = "Conversing"

\* the installed voices of the profile: the name of a male voice holds
\* "david" or "male", the name of a female voice "zira" or "female"
ProfileVoices(voices, use_male_voice) ==
    {i \in 1..Len(voices) :
        \E word \in (IF use_male_voice
                     THEN {<<"d","a","v","i","d">>, <<"m","a","l","e">>}
                     ELSE {<<"z","i","r","a">>, <<"f","e","m","a","l","e">>}) :
            Contains(lower(voices[i]), word)}

\* the engine raised during the call
EngineFailed ==
    \/ speech.fn = "speak_text" /\ speech.tts.speak_error
    \/ speech.fn = "text_to_speech" /\ speech.tts.save_error

\* the call was made for a profile that has no voice among the installed ones
CalledWithoutProfileVoice ==
    /\ speech.done
    /\ speech.tts.voices # <<>>
    /\ ProfileVoices(speech.tts.voices, speech.use_male_voice) = {}

\* C24: when no installed voice is of the requested profile (male or
\* female) but some voice is installed, speaking a text that is not empty
\* uses one of the installed voices and reports success, unless the engine
\* itself fails: a call never returns failure or nothing only because the
\* preferred voice is missing.
C24_FallbackVoice ==
    (CalledWithoutProfileVoice /\ speech.text # <<>> /\ ~EngineFailed)
        => /\ Truthy(speech.result)
           /\ speech.voice \in 1..Len(speech.tts.voices)

C24_Witness ==
    /\ CalledWithoutProfileVoice
    /\ speech.fn = "speak_text"
    /\ speech.use_male_voice
    /\ speech.tts.voices = <<VOICE_ZIRA>>
    /\ speech.text # <<>>
    /\ speech.result = "True"
    /\ speech.voice = 1

\* the scorer was called on a text that is not empty, with one phrase
ScoredOne == scorer.done /\ Len(scorer.phrases) = 1 /\ scorer.text # <<>>

\* every token of the phrase is among the tokens of the text
HasAllTokens(tokens, w_tokens) ==
    \A k \in 1..Len(w_tokens) : InList(w_tokens[k], tokens)

\* the score of window i of the text against the phrase, i counted from 0
WindowScore(tokens, w, i) ==
    ratio(join(Slice(tokens, i, Max(1, Len(split(w))))), w)

\* the windows whose score reaches the cutoff of the windowed tier
WindowHits(tokens, w) ==
    {i \in 0..(Max(1, Len(tokens) - Max(1, Len(split(w))) + 1) - 1) :
        Geq(WindowScore(tokens, w, i), span_threshold)}

\* the score of pair p, the pairs counted from 0 with the tokens of the
\* phrase outside and the tokens of the text inside
PairScore(tokens, w_tokens, p) ==
    ratio(tokens[(p % Len(tokens)) + 1], w_tokens[(p \div Len(tokens)) + 1])

\* the pairs whose score reaches the cutoff of the single-token tier
PairHits(tokens, w_tokens) ==
    {p \in 0..(Len(w_tokens) * Len(tokens) - 1) :
        Geq(PairScore(tokens, w_tokens, p), token_threshold)}

Least(S) == CHOOSE i \in S : \A j \in S : i <= j

\* the single-token tier decides, when one of its pairs reaches the cutoff
PairTier(tokens, w_tokens, hits, score) ==
    hits # {} => score = PairScore(tokens, w_tokens, Least(hits))

\* the windowed tier decides, and the single-token tier after it
WindowTier(tokens, w, hits, score) ==
    IF hits # {} THEN score = WindowScore(tokens, w, Least(hits))
    ELSE PairTier(tokens, split(w), PairHits(tokens, split(w)), score)

\* the score is the value of the first tier whose criterion the normalized
\* text and the normalized phrase meet
FirstTier(norm, w, score) ==
    IF norm = w THEN score = <<1, 1>>
    ELSE IF Contains(norm, w) THEN score = Frac(95, 100)
    ELSE IF HasAllTokens(split(norm), split(w)) THEN score = Frac(9, 10)
    ELSE WindowTier(split(norm), w, WindowHits(split(norm), w), score)

\* the tokens of the text hold every token of the phrase, and the
\* normalized phrase is not a part of the normalized text
SubsetOnly(norm, w) == HasAllTokens(split(norm), split(w)) /\ ~Contains(norm, w)

\* C25 as stated: within one phrase the first tier whose criterion is met
\* determines the score, for every phrase.
C25_Original ==
    ScoredOne
        => FirstTier(NormText(scorer.text), NormWake(scorer.phrases[1]), scorer.score)

\* C25: when the tokens of the text hold every token of the phrase p, in any
\* order, and p is not a part of the normalized text, the score of the text
\* against p alone is exactly 0.9; and for a phrase that is not empty once
\* normalized the tiers are tried in the order exact, substring,
\* token-subset, windowed fuzzy, single-token fuzzy, and the first tier
\* whose criterion is met gives the score.
C25_TokenSubsetAndTierOrder ==
    ScoredOne
        => /\ SubsetOnly(NormText(scorer.text), NormWake(scorer.phrases[1]))
                => scorer.score = Frac(9, 10)
           /\ NormWake(scorer.phrases[1]) # <<>>
                => FirstTier(NormText(scorer.text), NormWake(scorer.phrases[1]),
                             scorer.score)

C25_Witness ==
    /\ ScoredOne
    /\ scorer.phrases = << <<"h","e","y"," ","s","a","t","h","i">> >>
    /\ scorer.text = <<"s","a","t","h","i"," ","h","e","y">>
    /\ scorer.score = <<9, 10>>

\* the string is in canonical form: characters of [a-z0-9 ] only, no space
\* at either end and no two spaces in a row
Canonical(s) ==
    /\ \A i \in 1..Len(s) :
          \/ s[i] = " "
          \/ s[i] \in Digits
          \/ \E k \in 1..Len(LowerChars) : LowerChars[k] = s[i]
    /\ s # <<>> => s[1] # " " /\ s[Len(s)] # " "
    /\ \A i \in 1..(Len(s) - 1) : ~(s[i] = " " /\ s[i + 1] = " ")

\* the strings a call normalizes: the text and every phrase
Normalized == {scorer.text} \cup {scorer.phrases[i] : i \in 1..Len(scorer.phrases)}

\* C26: the normalization is idempotent and canonical: the normal form of
\* every string holds only characters of [a-z0-9 ], has no space at either
\* end and no repeated spaces, normalizing it again changes nothing, and the
\* empty string is its own normal form; the normalization of the incoming
\* text and the one of the wake phrases give the same result on every string.
C26_NormalizationCanonical ==
    scorer.done
        => \A t \in Normalized :
              /\ Canonical(NormText(t))
              /\ NormText(NormText(t)) = NormText(t)
              /\ t = <<>> => NormText(t) = <<>>
              /\ NormWake(t) = NormText(t)

C26_Witness ==
    /\ scorer.done
    /\ scorer.text = <<" "," ","H","E","Y",".",".","."," "," ","S","a","t","h","i","!","\t">>
    /\ NormText(scorer.text) = <<"h","e","y"," ","s","a","t","h","i">>
    /\ \E i \in 1..Len(scorer.phrases) :
          /\ scorer.phrases[i] # NormWake(scorer.phrases[i])
          /\ NormWake(scorer.phrases[i]) = NormText(scorer.text)

\* a step of the scheduler that begins a check
BeginsCheck == sched.started /\ sched.todo = <<>> /\ sched' # sched

\* a step of the scheduler that announces the next task of its check
Announces == sched.todo # <<>> /\ sched' # sched

\* C27: the conversation state is always one of Idle, AwaitingConfirmation
\* and Conversing and starts as Idle; a step that changes it is a pass of
\* the assistant's own loop over one utterance, made from the state the loop
\* was in, and leaves the scheduler and its table alone; a step of the
\* scheduler, which announces while the assistant speaks, and a request of
\* the admin interface change nothing of the assistant.
C27_StateOwnedByWakeMachine ==
    /\ state = "Idle"
    /\ [](state \in {"Idle", "AwaitingConfirmation", "Conversing"})
    /\ [][/\ state' # state => /\ last'.mode = state
                               /\ last'.o.input = "text"
                               /\ UNCHANGED taskVars
          /\ (sched' # sched \/ op' # op \/ store' # store)
                => UNCHANGED coreVars]_vars

C27_Witness ==
    /\ state = "Conversing"
    /\ last.mode = "Conversing"
    /\ last.o.out # <<>>
    /\ sched.todo = <<>>
    /\ sched.heard # <<>>

\* the ids in a sequence of ids
Ids(seq) == {seq[k] : k \in 1..Len(seq)}

\* the tasks of the table that are active, carry the time `current_time`
\* and repeat daily or have never run
DueTasks(rows, current_time) ==
    {i \in 1..Len(rows) : /\ rows[i].is_active
                          /\ rows[i].time = current_time
                          /\ (rows[i].repeat_daily \/ rows[i].last_run = <<>>)}

\* a non-repeating task of the table whose last_run is set
RanOnce(rows, i) == ~rows[i].repeat_daily /\ rows[i].last_run # <<>>

\* C28: a check sets out to announce, once each, exactly the tasks that are
\* active when it begins, whose stored time equals the current HH:MM and
\* that repeat daily or have never run, and announces no other task; no
\* step clears a last_run, so a non-repeating task whose last_run is set is
\* announced by no later check.
C28_AnnouncesExactlyDueTasks ==
    /\ [](Ids(sched.announced) \subseteq Ids(sched.due))
    /\ [][/\ BeginsCheck
               => /\ Ids(sched'.due) = DueTasks(store, sched'.now)
                  /\ Len(sched'.due) = Cardinality(DueTasks(store, sched'.now))
                  /\ \A i \in 1..Len(store) :
                         RanOnce(store, i) => i \notin Ids(sched'.due)
          /\ Len(store') >= Len(store)
          /\ \A i \in 1..Len(store) :
                 RanOnce(store, i) => RanOnce(store', i)]_vars

\* C29: a task that delete_task was called on with success is among the
\* tasks fetch_tasks returns in no later state and is announced by no later
\* step of the scheduler; the deletion clears the is_active flag of that
\* task and changes nothing else of the table.
C29_DeletedTaskStaysSilent ==
    /\ [](\A id \in op.deleted :
              \A k \in 1..Len(fetch_tasks(store, "ok")) :
                  fetch_tasks(store, "ok")[k].id # id)
    /\ [][/\ Announces => Head(sched.todo).id \notin op.deleted
          /\ op'.name = "delete" /\ op' # op
               => /\ Len(store') = Len(store)
                  /\ \A i \in 1..Len(store) :
                         store'[i] = IF i = op'.id /\ op'.result = "True"
                                     THEN [store[i] EXCEPT !.is_active = FALSE]
                                     ELSE store[i]]_vars

\* the hour and the minute a time that strptime accepts denotes
TimeDenoted(time_str) ==
    LET i == CHOOSE k \in 1..Len(time_str) : time_str[k] = ":"
    IN  <<Number(SubSeq(time_str, 1, i - 1)),
          Number(SubSeq(time_str, i + 1, Len(time_str)))>>

\* C30: a check sets out to announce every active task whose time denotes
\* the hour and minute of the clock and that repeats daily or has never run;
\* add_task called with a time that strptime rejects returns False and
\* leaves the table as it was.
C30_AcceptedTasksAnnounced ==
    [][/\ BeginsCheck
            => \A i \in 1..Len(store) :
                   (/\ store[i].is_active
                    /\ TimeDenoted(store[i].time) = TimeDenoted(sched'.now)
                    /\ (store[i].repeat_daily \/ store[i].last_run = <<>>))
                       => i \in Ids(sched'.due)
       /\ (op' # op /\ op'.name = "add" /\ op'.result # "missing"
              /\ ~strptime(op'.time))
            => op'.result = "False" /\ store' = store]_vars

\* C31: an announcement sets the last_run of its task only when the
\* reminder was spoken: a task whose reminder was not heard keeps the
\* last_run it had.
C31_LastRunOnlyAfterSpoken ==
    [][(Announces /\ sched'.heard = sched.heard)
         => store'[Head(sched.todo).id].last_run
                = store[Head(sched.todo).id].last_run]_vars

\* the tasks of a check during whose announcement the engine or the table
\* failed: announced and not heard, or announced and left without last_run
FailedAnnouncements ==
    {i \in Ids(sched.announced) :
        i \notin Ids(sched.heard) \/ store[i].last_run = <<>>}

\* C32: a check whose announcement of one task fails, by the engine or by
\* the table, goes on with every other task that was due: in every state
\* the tasks announced and the tasks still to announce are the tasks the
\* check set out to announce; and the thread of the scheduler, once started,
\* runs on, so that later checks are made.
C32_FailureDoesNotStopCheck ==
    /\ [](sched.announced \o TaskIds(sched.todo) = sched.due)
    /\ [][sched.started => sched'.started]_vars

C32_Witness ==
    /\ sched.todo = <<>>
    /\ Len(sched.announced) = 2
    /\ sched.announced[1] \in FailedAnnouncements
    /\ sched.announced[1] \notin Ids(sched.heard)
    /\ sched.announced[2] \in Ids(sched.heard)
    /\ sched.started

\* a step of main() of ask_loop.py, which leaves audio.wav as it is
AskLoopStep == ask'.file = ask.file /\ ask' # ask

\* main() is in its loop, or has left it
InAskLoop == ask.at \in {"line 102", "line 103"}

\* C33: a pass of the ask loop runs whisper-cli at most once, and only on a
\* modification time of audio.wav that differs from the one it saw last,
\* which it then holds as seen; a transcript that is empty or equal to the
\* question asked last is not sent to the model and nothing is spoken, so
\* no question is asked twice in a row; a failure of whisper-cli, of the
\* reading of the transcript, of the model or of the engine leaves the loop
\* running, and the loop is left on Ctrl-C only.
C33_AskLoop ==
    /\ [](/\ ask.pass.transcriptions \in {0, 1}
          /\ (ask.pass.transcriptions = 1
                 /\ ask.pass.transcript \in {<<>>, ask.asked_before})
                => ask.pass.asked = NoQuestion /\ ask.pass.spoken = <<>>
          /\ ask.pass.asked # NoQuestion => ask.pass.asked # ask.asked_before
          /\ ask.pass.spoken # <<>> => ask.pass.asked # NoQuestion
          /\ ask.pass.error \in {"getmtime", "whisper", "read", "chat", "speak"}
                => ask.running
          /\ (InAskLoop /\ ~ask.running)
                => ask.pass.error = "KeyboardInterrupt" /\ ask.raised = "none")
    /\ [][(AskLoopStep /\ ask'.pass.transcriptions = 1)
            => /\ ask.file \notin {0, ask.last_mtime}
               /\ ask'.last_mtime = ask.file]_vars

C33_Witness ==
    /\ ask.running
    /\ ask.pass.transcriptions = 1
    /\ ask.pass.transcript # <<>>
    /\ ask.pass.transcript = ask.asked_before
    /\ ask.pass.asked = NoQuestion
    /\ ask.pass.spoken = <<>>

=============================================================================
